---------------------------- MODULE Spec2Model ----------------------------
(***************************************************************************)
(* Model of the text-to-image layout engine of smart-weather-clock:        *)
(*   utils.py            parse_html_formatting, has_html_tags               *)
(*   image_generator.py  _wrap_text, _wrap_text_for_size,                   *)
(*                       _wrap_formatted_text, calculate_auto_font_size,    *)
(*                       _draw_multiline_text, _draw_justified_line,        *)
(*                       _draw_formatted_text, _calculate_stroke_settings,  *)
(*                       create_gradient_background, _get_font,             *)
(*                       create_text_image, create_with_gradient            *)
(*   main.py             main, create_and_upload_text, upload_file          *)
(*   display_uploader.py upload_image, _upload_to_display                   *)
(* Texts are sequences of one-character strings.  Offsets into a text are   *)
(* 0-based as in the Python source; TLA+ sequence indices are 1-based.      *)
(***************************************************************************)
EXTENDS Integers, Sequences, FiniteSets, TLC

VARIABLES
    \* ---- markup parser (utils.py) ----
    pieces,         \* the input as it was typed: a sequence of fragments
    text,           \* the input string handed to the functions
    pc,             \* position of the parser call
    has_tags,       \* result of has_html_tags(text), FALSE before the call
    last_pos,       \* parse_html_formatting: last_pos
    current_text,   \* parse_html_formatting: current_text
    format_stack,   \* parse_html_formatting: format_stack
    segments,       \* parse_html_formatting: segments / the returned list
    \* ---- ImageGenerator (image_generator.py) ----
    width,          \* self.width
    height,         \* self.height
    padding,        \* self.padding_top / _bottom / _left / _right
    font_size,      \* the font size of the render call
    scalable,       \* whether the resolved font honours the size (TrueType)
    lines,          \* result of _wrap_text
    lines_again,    \* _wrap_text applied to ' '.join(lines)
    size_lines,     \* result of _wrap_text_for_size
    fmt_lines,      \* result of _wrap_formatted_text
    min_size,       \* calculate_auto_font_size: min_size
    max_size,       \* calculate_auto_font_size: max_size
    best_size,      \* calculate_auto_font_size: best_size
    probes,         \* calculate_auto_font_size: iterations of the loop so far
    probed,         \* history: the sizes probed so far and whether each fitted
    alignment,      \* the alignment of the render call
    stroke_width,   \* final_stroke_width
    stroke_color,   \* final_stroke_color, None or a colour
    drawn,          \* per line, the draw.text calls made for it, in order
    text_color,     \* text_color of the render call
    background_color, \* background_color of the render call
    arg_stroke_width, \* the stroke_width argument of the render call
    arg_stroke_color, \* the stroke_color argument of the render call, None or a colour
    auto_stroke,    \* the auto_stroke argument of the render call
    color1,         \* create_gradient_background: color1
    color2,         \* create_gradient_background: color2
    direction,      \* create_gradient_background: direction
    position,       \* create_gradient_background: rows (columns) painted so far
    row,            \* the colour of the row (column) painted last
    prev_row,       \* the colour of the row (column) painted before it
    \* ---- command line and upload (main.py, display_uploader.py) ----
    entry,          \* "main" for a run of main(), "direct" for a call of create_and_upload_text
    argv,           \* sys.argv[1:], a sequence of tokens
    args,           \* the namespace returned by parser.parse_args()
    call,           \* the call of create_and_upload_text or upload_file: its arguments
    kwargs,         \* the keyword arguments of create_and_upload_text that shape the image
    events,         \* the work done so far: "render", "save", "post", in order
    result,         \* the record returned by upload_image
    error,          \* the exception that ended the run, "" if none
    \* ---- font resolution (image_generator.py) ----
    env,            \* the font files of the system: which exist, which load
    style,          \* bold and italic of the requested font
    font_handle,    \* the font handle returned
    tried           \* the loads attempted, in order, each with its outcome

parseVars == <<pieces, has_tags, last_pos, current_text, format_stack>>

canvasVars == <<width, height, padding, font_size, scalable>>

wrapVars == <<lines, lines_again, size_lines, fmt_lines>>

autoVars == <<min_size, max_size, best_size, probes, probed>>

drawVars == <<alignment, stroke_width, stroke_color, drawn>>

strokeVars == <<text_color, background_color, arg_stroke_width, arg_stroke_color, auto_stroke>>

\* the variables of the operations modelled after the text layout
gradVars == <<color1, color2, direction, position, row, prev_row>>

cliVars == <<entry, argv, args, call, kwargs, events, result, error>>

fontVars == <<env, style, font_handle, tried>>

restVars == <<strokeVars, gradVars, cliVars, fontVars>>

vars == <<pieces, text, pc, has_tags, last_pos, current_text, format_stack, segments,
          width, height, padding, font_size, scalable,
          lines, lines_again, size_lines, fmt_lines,
          min_size, max_size, best_size, probes, probed,
          alignment, stroke_width, stroke_color, drawn,
          text_color, background_color, arg_stroke_width, arg_stroke_color, auto_stroke,
          color1, color2, direction, position, row, prev_row,
          entry, argv, args, call, kwargs, events, result, error,
          env, style, font_handle, tried>>

-----------------------------------------------------------------------------
(* Generic helpers *)

Range(s) == {s[k] : k \in 1..Len(s)}

RECURSIVE Concat(_)
Concat(ss) == IF ss = <<>> THEN <<>> ELSE Head(ss) \o Concat(Tail(ss))

Min(S) == CHOOSE x \in S : \A y \in S : x <= y

Max(S) == CHOOSE x \in S : \A y \in S : x >= y

-----------------------------------------------------------------------------
(* Input fragments of the markup parser.  Every text of the parser          *)
(* specification is a concatenation of at most MaxPieces fragments.         *)

MaxPieces == 4

OpenB  == <<"<", "b", ">">>

CloseB == <<"<", "/", "b", ">">>

OpenI  == <<"<", "i", ">">>

CloseI == <<"<", "/", "i", ">">>

\* upper case, a space and the self-closing slash: still an opening u tag
OpenU  == <<"<", "U", " ", "/", ">">>

PlainX == <<"x">>

PlainY == <<" ", "y">>

\* tags the parser does not know
TagBr  == <<"<", "b", "r", ">">>

TagDiv == <<"<", "d", "i", "v", ">">>

Pieces == {OpenB, CloseB, OpenI, CloseI, OpenU, PlainX, PlainY, TagBr, TagDiv}

PieceSeqs == UNION { [1..n -> Pieces] : n \in 0..MaxPieces }

-----------------------------------------------------------------------------
(* utils.py: TextSegment and the tag pattern  <(/?)([biu])\s*/?>            *)
(* searched with re.IGNORECASE.                                             *)

TagNames == {"b", "i", "u"}

TextSegment(t, b, i, u) == [text |-> t, bold |-> b, italic |-> i, underline |-> u]

\* str.lower() on the characters the pattern can capture
Lower(c) == CASE c = "B" -> "b" [] c = "I" -> "i" [] c = "U" -> "u" [] OTHER -> c

\* \s of the re module
IsSpace(c) == c \in {" ", "\t", "\n"}

\* \s* is greedy and nothing after it in the pattern can match a space
RECURSIVE SkipSpaces(_, _)
SkipSpaces(t, q) ==
    IF q <= Len(t) /\ IsSpace(t[q]) THEN SkipSpaces(t, q + 1) ELSE q

\* The pattern tried at 1-based index p.  start/end are match.start() and
\* match.end() (0-based, end exclusive).
TagMatchAt(t, p) ==
    LET n       == Len(t)
        closing == p + 1 <= n /\ t[p + 1] = "/"
        q2      == IF closing THEN p + 2 ELSE p + 1
        q3      == SkipSpaces(t, q2 + 1)
        q4      == IF q3 <= n /\ t[q3] = "/" THEN q3 + 1 ELSE q3
    IN  [ found   |-> /\ t[p] = "<"
                      /\ q2 <= n
                      /\ Lower(t[q2]) \in TagNames
                      /\ q4 <= n
                      /\ t[q4] = ">",
          closing |-> closing,
          name    |-> IF q2 <= n THEN Lower(t[q2]) ELSE "",
          start   |-> p - 1,
          end     |-> q4 ]

NoMatch == [found |-> FALSE, closing |-> FALSE, name |-> "", start |-> 0, end |-> 0]

\* re.finditer: the leftmost match at or after offset from
NextMatch(t, from) ==
    LET starts == {p \in (from + 1)..Len(t) : TagMatchAt(t, p).found}
    IN  IF starts = {} THEN NoMatch ELSE TagMatchAt(t, Min(starts))

\* mutant: only the innermost (top-of-stack) tag sets a flag
SegmentOfTop(ct, stack) ==
    LET top == IF stack = <<>> THEN "" ELSE stack[Len(stack)]
    IN  TextSegment(ct, top = "b", top = "i", top = "u")

\* bold='b' in format_stack, italic='i' in format_stack, underline='u' in format_stack
SegmentOf(ct, stack) ==
    TextSegment(ct, "b" \in Range(stack), "i" \in Range(stack), "u" \in Range(stack))

\* if current_text: segments.append(TextSegment(...))
Flush(segs, ct, stack) ==
    IF ct # <<>> THEN Append(segs, SegmentOf(ct, stack)) ELSE segs

\* mutant: the stack kept as a set, a name already active is not added again
PushTagSet(stack, name) ==
    IF name \in Range(stack) THEN stack ELSE Append(stack, name)

\* format_stack.append(tag_name)
PushTag(stack, name) == Append(stack, name)

\* list.remove: drops the first occurrence
RemoveFirst(stack, name) ==
    LET k == Min({j \in 1..Len(stack) : stack[j] = name})
    IN  SubSeq(stack, 1, k - 1) \o SubSeq(stack, k + 1, Len(stack))

\* mutant: a closing tag of a name that is not active activates it
PopTagToggle(stack, name) ==
    IF name \in Range(stack) THEN RemoveFirst(stack, name) ELSE Append(stack, name)

\* if tag_name in format_stack: format_stack.remove(tag_name)
PopTag(stack, name) ==
    IF name \in Range(stack) THEN RemoveFirst(stack, name) ELSE stack

\* re.search(r'<[biu].*?>', text, re.IGNORECASE); '.' does not match a newline
HasHtmlTags(t) ==
    /\ t # <<>>
    /\ \E p \in 1..Len(t) :
          /\ t[p] = "<"
          /\ p + 1 <= Len(t)
          /\ Lower(t[p + 1]) \in TagNames
          /\ \E q \in (p + 2)..Len(t) :
                /\ t[q] = ">"
                /\ \A k \in (p + 2)..(q - 1) : t[k] # "\n"

-----------------------------------------------------------------------------
(* Values of the variables a specification does not use *)

ParseIdle ==
    /\ pieces = <<>>
    /\ has_tags = FALSE
    /\ last_pos = 0
    /\ current_text = <<>>
    /\ format_stack = <<>>

CanvasIdle ==
    /\ width = 0
    /\ height = 0
    /\ padding = [top |-> 0, bottom |-> 0, left |-> 0, right |-> 0]
    /\ font_size = 0
    /\ scalable = TRUE

WrapIdle ==
    /\ lines = <<>>
    /\ lines_again = <<>>
    /\ size_lines = <<>>
    /\ fmt_lines = <<>>

AutoIdle ==
    /\ min_size = 0
    /\ max_size = 0
    /\ best_size = 0
    /\ probes = 0
    /\ probed = <<>>

DrawIdle ==
    /\ alignment = "center"
    /\ stroke_width = 0
    /\ stroke_color = "None"
    /\ drawn = <<>>

StrokeIdle ==
    /\ text_color = <<255, 255, 255>>
    /\ background_color = <<0, 0, 0>>
    /\ arg_stroke_width = 0
    /\ arg_stroke_color = "None"
    /\ auto_stroke = FALSE

GradIdle ==
    /\ color1 = <<0, 0, 0>>
    /\ color2 = <<0, 0, 0>>
    /\ direction = "vertical"
    /\ position = 0
    /\ row = <<>>
    /\ prev_row = <<>>

CliIdle ==
    /\ entry = "none"
    /\ argv = <<>>
    /\ args = <<>>
    /\ call = <<>>
    /\ kwargs = <<>>
    /\ events = <<>>
    /\ result = <<>>
    /\ error = ""

FontIdle ==
    /\ env = <<>>
    /\ style = <<>>
    /\ font_handle = <<>>
    /\ tried = <<>>

RestIdle ==
    /\ StrokeIdle
    /\ GradIdle
    /\ CliIdle
    /\ FontIdle

-----------------------------------------------------------------------------
(* The parser as a state machine *)

ParseInit ==
    /\ RestIdle
    /\ pieces \in PieceSeqs
    /\ text = Concat(pieces)
    /\ pc = "idle"
    /\ has_tags = FALSE
    /\ last_pos = 0
    /\ current_text = <<>>
    /\ format_stack = <<>>
    /\ segments = <<>>
    /\ CanvasIdle
    /\ WrapIdle
    /\ AutoIdle
    /\ DrawIdle

\* current_text once the text before the next tag (text[last_pos:match.start()])
\* or, after the last tag, the remaining text (text[last_pos:]) has been added
PendingText ==
    LET m == NextMatch(text, last_pos)
    IN  IF m.found
          THEN IF m.start > last_pos
                 THEN current_text \o SubSeq(text, last_pos + 1, m.start)
                 ELSE current_text
          ELSE IF last_pos < Len(text)
                 THEN current_text \o SubSeq(text, last_pos + 1, Len(text))
                 ELSE current_text

\* has_html_tags(text)
HasHtmlTagsCall ==
    /\ UNCHANGED restVars
    /\ pc = "idle"
    /\ has_tags' = HasHtmlTags(text)
    /\ pc' = "detected"
    /\ UNCHANGED <<pieces, text, last_pos, current_text, format_stack, segments>>
    /\ UNCHANGED <<canvasVars, wrapVars, autoVars, drawVars>>

\* parse_html_formatting: the early return and the initialisation
ParseBegin ==
    /\ UNCHANGED restVars
    /\ pc = "detected"
    /\ IF text = <<>> \/ "<" \notin Range(text)
         THEN /\ segments' = <<TextSegment(text, FALSE, FALSE, FALSE)>>
              /\ pc' = "done"
         ELSE /\ segments' = <<>>
              /\ pc' = "scan"
    /\ last_pos' = 0
    /\ current_text' = <<>>
    /\ format_stack' = <<>>
    /\ UNCHANGED <<pieces, text, has_tags, canvasVars, wrapVars, autoVars, drawVars>>

\* one iteration of  for match in re.finditer(tag_pattern, text, re.IGNORECASE)
ParseTag ==
    /\ UNCHANGED restVars
    /\ pc = "scan"
    /\ LET m  == NextMatch(text, last_pos)
           ct == PendingText
       IN  /\ m.found
           /\ segments' = Flush(segments, ct, format_stack)
           /\ current_text' = <<>>
           /\ format_stack' = IF m.closing
                                THEN PopTag(format_stack, m.name)
                                ELSE PushTag(format_stack, m.name)
           /\ last_pos' = m.end
    /\ UNCHANGED <<pieces, text, pc, has_tags, canvasVars, wrapVars, autoVars, drawVars>>

\* after the loop: the remaining text, the last flush and the return
ParseFinish ==
    /\ UNCHANGED restVars
    /\ pc = "scan"
    /\ LET m    == NextMatch(text, last_pos)
           ct   == PendingText
           segs == Flush(segments, ct, format_stack)
       IN  /\ ~m.found
           /\ segments' = IF segs # <<>> THEN segs
                          ELSE <<TextSegment(text, FALSE, FALSE, FALSE)>>
           /\ current_text' = <<>>
    /\ pc' = "done"
    /\ UNCHANGED <<pieces, text, has_tags, last_pos, format_stack, canvasVars, wrapVars, autoVars, drawVars>>

ParseNext == HasHtmlTagsCall \/ ParseBegin \/ ParseTag \/ ParseFinish

SpecParse == ParseInit /\ [][ParseNext]_vars

-----------------------------------------------------------------------------
(* config_example.py *)

IMAGE_WIDTH == 240

IMAGE_HEIGHT == 240

LINE_SPACING == 10

PADDING_TOP == 0

PADDING_BOTTOM == 25

PADDING_LEFT == 0

PADDING_RIGHT == 0

MIN_AUTO_FONT_SIZE == 10

MAX_AUTO_FONT_SIZE == 200

AUTO_SIZE_PADDING == 10

AUTO_SIZE_PADDING_BOTTOM == 35

\* ImageGenerator.__init__ without padding arguments
DefaultPadding ==
    [top |-> PADDING_TOP, bottom |-> PADDING_BOTTOM,
     left |-> PADDING_LEFT, right |-> PADDING_RIGHT]

-----------------------------------------------------------------------------
(* The text measurement capability, draw.textbbox((0, 0), s, font=font).    *)
(* Glyph metrics are those of a proportional font: an advance and an ink    *)
(* height per character in units of 1/UnitsPerEm of the font size, bold     *)
(* glyphs one unit wider.  A font that does not honour the requested size   *)
(* (ImageFont.load_default()) measures as size DefaultFontSize.             *)

UnitsPerEm == 10

DefaultFontSize == 10

Font(size, bold, sc) == [size |-> size, bold |-> bold, scalable |-> sc]

EffectiveSize(f) == IF f.scalable THEN f.size ELSE DefaultFontSize

Advance(c) == CASE c = "W" -> 9 [] c = " " -> 3 [] OTHER -> 5

InkHeight(c) == CASE c = "W" -> 8 [] c = " " -> 0 [] OTHER -> 6

CharWidth(c, f) ==
    ((Advance(c) + IF f.bold THEN 1 ELSE 0) * EffectiveSize(f)) \div UnitsPerEm

\* bbox[2] - bbox[0]
RECURSIVE TextWidth(_, _)
TextWidth(s, f) ==
    IF s = <<>> THEN 0 ELSE CharWidth(Head(s), f) + TextWidth(Tail(s), f)

\* bbox[3] - bbox[1]
TextHeight(s, f) ==
    IF s = <<>> THEN 0
    ELSE Max({(InkHeight(s[k]) * EffectiveSize(f)) \div UnitsPerEm : k \in 1..Len(s)})

-----------------------------------------------------------------------------
(* str.split() and ' '.join() *)

RECURSIVE SplitFrom(_, _, _, _)
SplitFrom(t, k, cur, out) ==
    IF k > Len(t) THEN (IF cur = <<>> THEN out ELSE Append(out, cur))
    ELSE IF IsSpace(t[k])
           THEN SplitFrom(t, k + 1, <<>>, IF cur = <<>> THEN out ELSE Append(out, cur))
           ELSE SplitFrom(t, k + 1, Append(cur, t[k]), out)

Split(t) == SplitFrom(t, 1, <<>>, <<>>)

RECURSIVE Join(_)
Join(ws) ==
    IF ws = <<>> THEN <<>>
    ELSE IF Len(ws) = 1 THEN ws[1]
    ELSE ws[1] \o <<" ">> \o Join(Tail(ws))

-----------------------------------------------------------------------------
(* image_generator.py: the line breakers *)

\* mutant: a word that does not fit is appended to the line all the same
RECURSIVE WrapLoopNoBreak(_, _, _, _, _, _)
WrapLoopNoBreak(words, k, out, cur, f, max_width) ==
    IF k > Len(words) THEN [lines |-> out, current_line |-> cur]
    ELSE WrapLoopNoBreak(words, k + 1, out, Append(cur, words[k]), f, max_width)

\* mutant: a word that fits nowhere is put in front of the line being filled
RECURSIVE WrapLoopReorder(_, _, _, _, _, _)
WrapLoopReorder(words, k, out, cur, f, max_width) ==
    IF k > Len(words) THEN [lines |-> out, current_line |-> cur]
    ELSE LET word      == words[k]
             test_line == Join(Append(cur, word))
         IN  IF TextWidth(test_line, f) <= max_width
               THEN WrapLoopReorder(words, k + 1, out, Append(cur, word), f, max_width)
             ELSE WrapLoopReorder(words, k + 1, Append(out, word), cur, f, max_width)

\* mutant: a word wider than max_width on an empty line is dropped
RECURSIVE WrapLoopDropLong(_, _, _, _, _, _)
WrapLoopDropLong(words, k, out, cur, f, max_width) ==
    IF k > Len(words) THEN [lines |-> out, current_line |-> cur]
    ELSE LET word      == words[k]
             test_line == Join(Append(cur, word))
         IN  IF TextWidth(test_line, f) <= max_width
               THEN WrapLoopDropLong(words, k + 1, out, Append(cur, word), f, max_width)
             ELSE IF cur # <<>>
               THEN WrapLoopDropLong(words, k + 1, Append(out, Join(cur)), <<word>>, f, max_width)
             ELSE WrapLoopDropLong(words, k + 1, out, cur, f, max_width)

\* mutant: every word is put on a line of its own
WrapLoopOneWord(words, k, out, cur, f, max_width) ==
    [lines |-> words, current_line |-> <<>>]

\* for word in words: ... of _wrap_text (and, copied, of _wrap_text_for_size)
RECURSIVE WrapLoop(_, _, _, _, _, _)
WrapLoop(words, k, out, cur, f, max_width) ==
    IF k > Len(words) THEN [lines |-> out, current_line |-> cur]
    ELSE LET word      == words[k]
             test_line == Join(Append(cur, word))
         IN  IF TextWidth(test_line, f) <= max_width
               THEN WrapLoop(words, k + 1, out, Append(cur, word), f, max_width)
             ELSE IF cur # <<>>
               THEN WrapLoop(words, k + 1, Append(out, Join(cur)), <<word>>, f, max_width)
             ELSE WrapLoop(words, k + 1, Append(out, word), cur, f, max_width)

\* _wrap_text_for_size(text, font, draw, max_width)
WrapTextForSize(t, f, max_width) ==
    LET r   == WrapLoop(Split(t), 1, <<>>, <<>>, f, max_width)
        out == IF r.current_line # <<>>
                 THEN Append(r.lines, Join(r.current_line)) ELSE r.lines
    IN  IF out # <<>> THEN out ELSE <<t>>

\* _wrap_text(text, font, draw)
WrapText(t, f, w, pad) ==
    LET max_width == w - (pad.left + pad.right)
        r   == WrapLoop(Split(t), 1, <<>>, <<>>, f, max_width)
        out == IF r.current_line # <<>>
                 THEN Append(r.lines, Join(r.current_line)) ELSE r.lines
    IN  IF out # <<>> THEN out ELSE <<t>>

\* _get_formatted_font(font_path, font_size, bold, italic): the bold variant of
\* the font when the segment is bold; italic glyphs measure as upright ones
FormattedFont(size, seg, sc) == Font(size, seg.bold, sc)

\* the word segments of _wrap_formatted_text, segment after segment
RECURSIVE WordSegments(_)
WordSegments(segs) ==
    IF segs = <<>> THEN <<>>
    ELSE LET s  == Head(segs)
             ws == Split(s.text)
         IN  [k \in 1..Len(ws) |-> TextSegment(ws[k], s.bold, s.italic, s.underline)]
               \o WordSegments(Tail(segs))

\* mutant: the width of the space before the word is left out of the test
RECURSIVE FormattedLoopNoSpace(_, _, _, _, _, _, _, _)
FormattedLoopNoSpace(wsegs, k, out, cur, cur_width, size, sc, max_width) ==
    IF k > Len(wsegs) THEN [lines |-> out, current_line |-> cur]
    ELSE LET ws          == wsegs[k]
             font        == FormattedFont(size, ws, sc)
             word_width  == TextWidth(ws.text, font)
             space_width == IF cur # <<>> THEN TextWidth(<<" ">>, font) ELSE 0
             space       == TextSegment(<<" ">>, ws.bold, ws.italic, ws.underline)
         IN  IF cur # <<>> /\ cur_width + word_width > max_width
               THEN FormattedLoopNoSpace(wsegs, k + 1, Append(out, cur), <<ws>>, word_width,
                                  size, sc, max_width)
             ELSE IF cur # <<>>
               THEN FormattedLoopNoSpace(wsegs, k + 1, out, cur \o <<space, ws>>,
                                  cur_width + space_width + word_width, size, sc, max_width)
             ELSE FormattedLoopNoSpace(wsegs, k + 1, out, <<ws>>, cur_width + word_width,
                                size, sc, max_width)

\* for segment in segments: for word in words: ... of _wrap_formatted_text
RECURSIVE FormattedLoop(_, _, _, _, _, _, _, _)
FormattedLoop(wsegs, k, out, cur, cur_width, size, sc, max_width) ==
    IF k > Len(wsegs) THEN [lines |-> out, current_line |-> cur]
    ELSE LET ws          == wsegs[k]
             font        == FormattedFont(size, ws, sc)
             word_width  == TextWidth(ws.text, font)
             space_width == IF cur # <<>> THEN TextWidth(<<" ">>, font) ELSE 0
             space       == TextSegment(<<" ">>, ws.bold, ws.italic, ws.underline)
         IN  IF cur # <<>> /\ cur_width + space_width + word_width > max_width
               THEN FormattedLoop(wsegs, k + 1, Append(out, cur), <<ws>>, word_width,
                                  size, sc, max_width)
             ELSE IF cur # <<>>
               THEN FormattedLoop(wsegs, k + 1, out, cur \o <<space, ws>>,
                                  cur_width + space_width + word_width, size, sc, max_width)
             ELSE FormattedLoop(wsegs, k + 1, out, <<ws>>, cur_width + word_width,
                                size, sc, max_width)

\* _wrap_formatted_text(segments, base_font, draw, font_path, font_size)
WrapFormattedText(segs, size, sc, w, pad) ==
    LET max_width == w - (pad.left + pad.right)
        r   == FormattedLoop(WordSegments(segs), 1, <<>>, <<>>, 0, size, sc, max_width)
        out == IF r.current_line # <<>> THEN Append(r.lines, r.current_line) ELSE r.lines
    IN  IF out # <<>> THEN out ELSE << <<TextSegment(<<>>, FALSE, FALSE, FALSE)>> >>

-----------------------------------------------------------------------------
(* Inputs of the line breakers: every text of at most MaxTextLen characters *)
(* over a narrow letter, a wide letter and the space; a few font sizes and  *)
(* paddings; for the formatted breaker the text as one segment or cut in    *)
(* two segments, the second one bold.                                       *)

MaxTextLen == 6

WrapChars == {"a", "W", " "}

WrapTexts == UNION { [1..n -> WrapChars] : n \in 0..MaxTextLen }

WrapFontSizes == {24, 60, 100, 150}

WrapPaddings == { DefaultPadding, [top |-> 5, bottom |-> 5, left |-> 10, right |-> 21] }

Segmentations(t) ==
    { <<TextSegment(t, FALSE, FALSE, FALSE)>>, <<TextSegment(t, TRUE, FALSE, TRUE)>> }
    \cup { << TextSegment(SubSeq(t, 1, k), FALSE, FALSE, FALSE),
              TextSegment(SubSeq(t, k + 1, Len(t)), TRUE, FALSE, FALSE) >> :
           k \in 1..(Len(t) - 1) }

WrapInit ==
    /\ RestIdle
    /\ text \in WrapTexts
    /\ pc = "idle"
    /\ segments = <<>>
    /\ width = IMAGE_WIDTH
    /\ height = IMAGE_HEIGHT
    /\ padding \in WrapPaddings
    /\ font_size \in WrapFontSizes
    /\ scalable = TRUE
    /\ ParseIdle
    /\ WrapIdle
    /\ AutoIdle
    /\ DrawIdle

\* wrapped_text = self._wrap_text(text, font, draw)
WrapTextCall ==
    /\ UNCHANGED restVars
    /\ pc = "idle"
    /\ lines' = WrapText(text, Font(font_size, FALSE, scalable), width, padding)
    /\ pc' = "wrapped"
    /\ UNCHANGED <<text, segments, parseVars, canvasVars, autoVars, drawVars, lines_again, size_lines, fmt_lines>>

\* the produced lines joined with single spaces and wrapped again
WrapAgainCall ==
    /\ UNCHANGED restVars
    /\ pc = "wrapped"
    /\ lines_again' = WrapText(Join(lines), Font(font_size, FALSE, scalable), width, padding)
    /\ pc' = "rewrapped"
    /\ UNCHANGED <<text, segments, parseVars, canvasVars, autoVars, drawVars, lines, size_lines, fmt_lines>>

\* wrapped_lines = self._wrap_text_for_size(text, font, draw, max_width)
WrapTextForSizeCall ==
    /\ UNCHANGED restVars
    /\ pc = "rewrapped"
    /\ size_lines' = WrapTextForSize(text, Font(font_size, FALSE, scalable),
                                     width - 2 * AUTO_SIZE_PADDING)
    /\ pc' = "sized"
    /\ UNCHANGED <<text, segments, parseVars, canvasVars, autoVars, drawVars, lines, lines_again, fmt_lines>>

\* formatted_lines = self._wrap_formatted_text(segments, base_font, draw, font_path, font_size)
WrapFormattedTextCall ==
    /\ UNCHANGED restVars
    /\ pc = "sized"
    /\ \E segs \in Segmentations(text) :
          /\ segments' = segs
          /\ fmt_lines' = WrapFormattedText(segs, font_size, scalable, width, padding)
    /\ pc' = "formatted"
    /\ UNCHANGED <<text, parseVars, canvasVars, autoVars, drawVars, lines, lines_again, size_lines>>

WrapNext == WrapTextCall \/ WrapAgainCall \/ WrapTextForSizeCall \/ WrapFormattedTextCall

SpecWrap == WrapInit /\ [][WrapNext]_vars

-----------------------------------------------------------------------------
(* image_generator.py: calculate_auto_font_size *)

\* config_example.py: AUTO_SIZE_ITERATIONS, which the search does not read
AUTO_SIZE_ITERATIONS == 2

\* for _ in range(10)
AutoSizeProbes == 10

RECURSIVE SumHeights(_, _)
SumHeights(ls, f) ==
    IF ls = <<>> THEN 0 ELSE TextHeight(Head(ls), f) + SumHeights(Tail(ls), f)

\* the body of the probe up to  if fits_height and fits_width
FitsAt(t, size, sc, w, h) ==
    LET font             == Font(size, FALSE, sc)
        max_width        == w - (2 * AUTO_SIZE_PADDING)
        wrapped_lines    == WrapTextForSize(t, font, max_width)
        total_height     == SumHeights(wrapped_lines, font)
                              + IF Len(wrapped_lines) > 1
                                  THEN (Len(wrapped_lines) - 1) * LINE_SPACING ELSE 0
        actual_max_width == Max({0} \cup {TextWidth(wrapped_lines[k], font) :
                                            k \in 1..Len(wrapped_lines)})
        available_height == h - AUTO_SIZE_PADDING - AUTO_SIZE_PADDING_BOTTOM
        fits_height      == total_height <= available_height
        fits_width       == actual_max_width <= (w - 2 * AUTO_SIZE_PADDING)
    IN  fits_height /\ fits_width

\* mutant: the probed size is recorded as best whether it fitted or not
AfterProbeAlwaysBest(lo, hi, best, mid, fits) ==
    IF fits THEN [min_size |-> mid + 1, max_size |-> hi, best_size |-> mid]
    ELSE [min_size |-> lo, max_size |-> mid - 1, best_size |-> mid]

\* mutant: a fitting probe leaves the probed size inside the range
AfterProbeKeepMid(lo, hi, best, mid, fits) ==
    IF fits THEN [min_size |-> mid, max_size |-> hi, best_size |-> mid]
    ELSE [min_size |-> lo, max_size |-> mid - 1, best_size |-> best]

\* if fits_height and fits_width: best_size = mid_size; min_size = mid_size + 1
\* else: max_size = mid_size - 1
AfterProbe(lo, hi, best, mid, fits) ==
    IF fits THEN [min_size |-> mid + 1, max_size |-> hi, best_size |-> mid]
    ELSE [min_size |-> lo, max_size |-> mid - 1, best_size |-> best]

-----------------------------------------------------------------------------
(* Inputs of the size search: texts of at most MaxWords words joined by     *)
(* single spaces, on the display's canvas, with a font that honours the     *)
(* size or one that does not.                                               *)

MaxWords == 3

\* a word too wide for the canvas even at MIN_AUTO_FONT_SIZE
LongWord == [k \in 1..25 |-> "W"]

AutoWords == { <<"a">>, <<"W", "W">> }

AutoTexts ==
    { Join(ws) : ws \in UNION { [1..n -> AutoWords] : n \in 0..MaxWords } } \cup { LongWord }

AutoInit ==
    /\ RestIdle
    /\ text \in AutoTexts
    /\ pc = "idle"
    /\ segments = <<>>
    /\ width = IMAGE_WIDTH
    /\ height = IMAGE_HEIGHT
    /\ padding = DefaultPadding
    /\ font_size = -1
    /\ scalable \in BOOLEAN
    /\ min_size = 0
    /\ max_size = 0
    /\ best_size = 0
    /\ probes = 0
    /\ probed = <<>>
    /\ ParseIdle
    /\ WrapIdle
    /\ DrawIdle

\* calculate_auto_font_size up to the loop
AutoBegin ==
    /\ UNCHANGED restVars
    /\ pc = "idle"
    /\ min_size' = MIN_AUTO_FONT_SIZE
    /\ max_size' = MAX_AUTO_FONT_SIZE
    /\ best_size' = MIN_AUTO_FONT_SIZE
    /\ probes' = 0
    /\ probed' = <<>>
    /\ pc' = "search"
    /\ UNCHANGED <<text, segments, parseVars, canvasVars, wrapVars, drawVars>>

\* one iteration of the loop
AutoProbe ==
    /\ UNCHANGED restVars
    /\ pc = "search"
    /\ probes < AutoSizeProbes
    /\ min_size <= max_size
    /\ LET mid_size == (min_size + max_size) \div 2
           fits     == FitsAt(text, mid_size, scalable, width, height)
           r        == AfterProbe(min_size, max_size, best_size, mid_size, fits)
       IN  /\ min_size' = r.min_size
           /\ max_size' = r.max_size
           /\ best_size' = r.best_size
           /\ probed' = Append(probed, [size |-> mid_size, fits |-> fits])
    /\ probes' = probes + 1
    /\ UNCHANGED <<text, pc, segments, parseVars, canvasVars, wrapVars, drawVars>>

\* the loop ends (break, or the range is used up) and best_size is returned
AutoReturn ==
    /\ UNCHANGED restVars
    /\ pc = "search"
    /\ probes >= AutoSizeProbes \/ min_size > max_size
    /\ font_size' = best_size
    /\ pc' = "done"
    /\ UNCHANGED <<text, segments, parseVars, width, height, padding, scalable, wrapVars,
                   autoVars, drawVars>>

AutoNext == AutoBegin \/ AutoProbe \/ AutoReturn

SpecAuto == AutoInit /\ [][AutoNext]_vars

\* the call runs to its return statement: the for loop and the return are
\* straight-line code of one thread, so a step that can be taken is taken
\* The weak fairness of the probe is written out, with its enabling
\* condition (the loop guard) in the place of ENABLED.
ProbeEnabled == pc = "search" /\ probes < AutoSizeProbes /\ min_size <= max_size

SpecAutoRun ==
    /\ AutoInit
    /\ [][AutoNext]_vars
    /\ WF_vars(AutoBegin)
    /\ WF_vars(AutoReturn)
    /\ ([]<>~ProbeEnabled \/ []<><<AutoProbe>>_vars)

-----------------------------------------------------------------------------
(* image_generator.py: _draw_multiline_text and _draw_justified_line.       *)
(* A draw.text call is recorded as [x, y, text, fill]; fill is "stroke" for *)
(* the outline pass and "text" for the pass in the text colour.             *)

None == "None"

\* if stroke_width > 0 and stroke_color: draw.text(..., fill=stroke_color, ...)
\* draw.text(..., fill=color, ...)
DrawText(x, y, s, sw, sc) ==
    (IF sw > 0 /\ sc # None
       THEN <<[x |-> x, y |-> y, text |-> s, fill |-> "stroke"]>> ELSE <<>>)
    \o <<[x |-> x, y |-> y, text |-> s, fill |-> "text"]>>

\* int(x) of a float x = num / den, den > 0: truncation towards zero
IntOf(num, den) == IF num >= 0 THEN num \div den ELSE -((-num) \div den)

RECURSIVE SumWidths(_, _)
SumWidths(ws, f) ==
    IF ws = <<>> THEN 0 ELSE TextWidth(Head(ws), f) + SumWidths(Tail(ws), f)

\* mutant: the space is divided by the number of words
NumGapsOfWords(words) == Len(words)

\* num_gaps = len(words) - 1
NumGaps(words) == Len(words) - 1

\* for i, word in enumerate(words): ... with x = xn / num_gaps kept exact
\* (x is a float in the source; space_per_gap = total_space_needed / num_gaps)
RECURSIVE JustifyLoop(_, _, _, _, _, _, _, _, _)
JustifyLoop(words, k, xn, num_gaps, total_space_needed, y, f, sw, sc) ==
    IF k > Len(words) THEN <<>>
    ELSE LET xw == xn + TextWidth(words[k], f) * num_gaps
             xg == IF k < Len(words) THEN xw + total_space_needed ELSE xw
         IN  DrawText(IntOf(xn, num_gaps), y, words[k], sw, sc)
               \o JustifyLoop(words, k + 1, xg, num_gaps, total_space_needed, y, f, sw, sc)

\* _draw_justified_line(draw, line, y, font, color, stroke_width, stroke_color)
DrawJustifiedLine(line, y, f, sw, sc, w, pad) ==
    LET words == Split(line)
    IN  IF Len(words) <= 1
          THEN DrawText((w - TextWidth(line, f)) \div 2, y, line, sw, sc)
        ELSE LET available_width    == w - pad.left - pad.right
                 total_word_width   == SumWidths(words, f)
                 total_space_needed == available_width - total_word_width
                 num_gaps           == NumGaps(words)
             IN  IF num_gaps > 0 /\ total_space_needed >= 0
                   THEN JustifyLoop(words, 1, pad.left * num_gaps, num_gaps,
                                    total_space_needed, y, f, sw, sc)
                   ELSE DrawText(pad.left, y, Join(words), sw, sc)

\* mutant: the last line is justified like the others
IsJustifiedLineToo(align, n, i) == align = "justify" /\ n > 1

\* if alignment == 'justify' and len(lines) > 1 and i < len(lines) - 1  (i 0-based)
IsJustifiedLine(align, n, i) == align = "justify" /\ n > 1 /\ i < n - 1

\* the else branch: x per alignment
AlignedX(align, n, i, text_width, w, pad) ==
    IF align = "center" \/ (align = "justify" /\ i = n - 1)
      THEN (w - text_width) \div 2
    ELSE IF align = "left" THEN pad.left
    ELSE IF align = "right" THEN w - text_width - pad.right
    ELSE (w - text_width) \div 2

\* mutant: the stroke reserves no room between the lines
EffectiveLineSpacingPlain(sw) == LINE_SPACING

\* effective_line_spacing = LINE_SPACING + (stroke_width * 2 if stroke_width > 0 else 0)
EffectiveLineSpacing(sw) == LINE_SPACING + IF sw > 0 THEN sw * 2 ELSE 0

\* for i, line in enumerate(lines): ...   (k = i + 1); one entry per line
RECURSIVE DrawLinesLoop(_, _, _, _, _, _, _, _, _)
DrawLinesLoop(ls, k, y, f, align, sw, sc, w, pad) ==
    IF k > Len(ls) THEN <<>>
    ELSE LET line == ls[k]
             ops  == IF IsJustifiedLine(align, Len(ls), k - 1)
                       THEN DrawJustifiedLine(line, y, f, sw, sc, w, pad)
                       ELSE DrawText(AlignedX(align, Len(ls), k - 1,
                                              TextWidth(line, f), w, pad),
                                     y, line, sw, sc)
         IN  <<ops>> \o DrawLinesLoop(ls, k + 1,
                                      y + TextHeight(line, f) + EffectiveLineSpacing(sw),
                                      f, align, sw, sc, w, pad)

\* _draw_multiline_text(draw, lines, font, color, alignment, stroke_width, stroke_color)
DrawMultilineText(ls, f, align, sw, sc, w, h, pad) ==
    LET total_height     == SumHeights(ls, f) + (Len(ls) - 1) * EffectiveLineSpacing(sw)
        available_height == h - pad.top - pad.bottom
        y                == pad.top + (available_height - total_height) \div 2
    IN  DrawLinesLoop(ls, 1, y, f, align, sw, sc, w, pad)

-----------------------------------------------------------------------------
(* Inputs of the plain renderer: texts of at most MaxDrawWords words, two   *)
(* font sizes, the paddings of the line breakers, the four alignments,      *)
(* without a stroke or with a stroke of two pixels.                         *)

MaxDrawWords == 4

DrawWords == { <<"a">>, <<"W">>, <<"a", "W">> }

DrawTexts == { Join(ws) : ws \in UNION { [1..n -> DrawWords] : n \in 0..MaxDrawWords } }

DrawFontSizes == {60, 100}

Alignments == {"left", "center", "right", "justify"}

Strokes == { [width |-> 0, color |-> None], [width |-> 2, color |-> <<0, 0, 0>>] }

DrawInit ==
    /\ RestIdle
    /\ text \in DrawTexts
    /\ pc = "idle"
    /\ segments = <<>>
    /\ width = IMAGE_WIDTH
    /\ height = IMAGE_HEIGHT
    /\ padding \in WrapPaddings
    /\ font_size \in DrawFontSizes
    /\ scalable = TRUE
    /\ alignment \in Alignments
    /\ \E s \in Strokes : stroke_width = s.width /\ stroke_color = s.color
    /\ drawn = <<>>
    /\ ParseIdle
    /\ WrapIdle
    /\ AutoIdle

\* self._draw_multiline_text(draw, wrapped_text, font, text_color, alignment, ...)
DrawMultilineTextCall ==
    /\ UNCHANGED restVars
    /\ pc = "wrapped"
    /\ drawn' = DrawMultilineText(lines, Font(font_size, FALSE, scalable), alignment,
                                  stroke_width, stroke_color, width, height, padding)
    /\ pc' = "drawn"
    /\ UNCHANGED <<text, segments, parseVars, canvasVars, wrapVars, autoVars,
                   alignment, stroke_width, stroke_color>>

\* self._draw_justified_line(draw, line, y, font, color, ...) on a line of its own:
\* the text is the line, drawn at the top padding
DrawJustifiedLineCall ==
    /\ UNCHANGED restVars
    /\ pc = "idle"
    /\ alignment = "justify"
    /\ drawn' = <<DrawJustifiedLine(text, padding.top, Font(font_size, FALSE, scalable),
                                    stroke_width, stroke_color, width, padding)>>
    /\ pc' = "justified"
    /\ UNCHANGED <<text, segments, parseVars, canvasVars, wrapVars, autoVars,
                   alignment, stroke_width, stroke_color>>

\* create_text_image without markup: wrap, then draw
DrawNext == WrapTextCall \/ DrawMultilineTextCall \/ DrawJustifiedLineCall

SpecDraw == DrawInit /\ [][DrawNext]_vars

-----------------------------------------------------------------------------
(* image_generator.py: _calculate_stroke_settings, _calculate_contrast_ratio *)
(* and _get_contrasting_color.  Colours are <<r, g, b>>.  The source        *)
(* computes in floats; the model keeps the same quantities as exact         *)
(* integers: a luminance as 2550000 times its value, a brightness as 1000   *)
(* times its value, a ratio as numerator and denominator.                   *)

Black == <<0, 0, 0>>

White == <<255, 255, 255>>

\* mutant: a brightness of exactly 128 counts as bright
GetContrastingColorFrom128(color) ==
    IF color[1] * 299 + color[2] * 587 + color[3] * 114 >= 128 * 1000
      THEN Black ELSE White

\* _get_contrasting_color(color): brightness = (r*299 + g*587 + b*114) / 1000;
\* black if brightness > 128 else white
GetContrastingColor(color) ==
    IF color[1] * 299 + color[2] * 587 + color[3] * 114 > 128 * 1000
      THEN Black ELSE White

\* relative_luminance(rgb) = 0.2126*r/255 + 0.7152*g/255 + 0.0722*b/255,
\* here times 10000 * 255
RelativeLuminance(rgb) == 2126 * rgb[1] + 7152 * rgb[2] + 722 * rgb[3]

\* 0.05, times 10000 * 255
LuminanceOffset == 127500

\* mutant: the luminance of the first colour is always the numerator
ContrastRatioUnordered(c1, c2) ==
    [num |-> RelativeLuminance(c1) + LuminanceOffset,
     den |-> RelativeLuminance(c2) + LuminanceOffset]

\* _calculate_contrast_ratio(color1, color2): the lighter over the darker
ContrastRatio(c1, c2) ==
    LET lum1 == RelativeLuminance(c1)
        lum2 == RelativeLuminance(c2)
    IN  IF lum1 > lum2
          THEN [num |-> lum1 + LuminanceOffset, den |-> lum2 + LuminanceOffset]
          ELSE [num |-> lum2 + LuminanceOffset, den |-> lum1 + LuminanceOffset]

\* mutant: every width other than 0 counts as an explicit width
CalculateStrokeSettingsAnyWidth(tc, bg, sw, sc, auto) ==
    IF sw = 0 /\ ~auto THEN [width |-> 0, color |-> None]
    ELSE IF sw # 0
      THEN [width |-> sw, color |-> IF sc = None THEN GetContrastingColor(tc) ELSE sc]
    ELSE IF auto /\ ContrastRatio(tc, bg).num < 7 * ContrastRatio(tc, bg).den /\ tc # White
      THEN [width |-> 1, color |-> GetContrastingColor(tc)]
    ELSE [width |-> 0, color |-> None]

\* _calculate_stroke_settings(text_color, background_color, stroke_width,
\*                            stroke_color, auto_stroke)
CalculateStrokeSettings(tc, bg, sw, sc, auto) ==
    IF sw = 0 /\ ~auto THEN [width |-> 0, color |-> None]
    ELSE IF sw > 0
      THEN [width |-> sw, color |-> IF sc = None THEN GetContrastingColor(tc) ELSE sc]
    ELSE IF auto /\ ContrastRatio(tc, bg).num < 7 * ContrastRatio(tc, bg).den /\ tc # White
      THEN [width |-> 1, color |-> GetContrastingColor(tc)]
    ELSE [width |-> 0, color |-> None]

\* colours of ImageConfig.COLORS
COLORS == { Black, White, <<255, 0, 0>>, <<255, 255, 0>>, <<128, 128, 128>>, <<0, 0, 128>> }

StrokeWidths == {-2, 0, 1, 3}

StrokeInit ==
    /\ pc = "idle"
    /\ text_color \in COLORS
    /\ background_color \in COLORS
    /\ arg_stroke_width \in StrokeWidths
    /\ arg_stroke_color \in {None, Black, <<0, 0, 255>>}
    /\ auto_stroke \in BOOLEAN
    /\ text = <<>>
    /\ segments = <<>>
    /\ ParseIdle
    /\ CanvasIdle
    /\ WrapIdle
    /\ AutoIdle
    /\ DrawIdle
    /\ GradIdle
    /\ CliIdle
    /\ FontIdle

\* final_stroke_width, final_stroke_color = self._calculate_stroke_settings(...)
CalculateStrokeSettingsCall ==
    /\ pc = "idle"
    /\ LET s == CalculateStrokeSettings(text_color, background_color, arg_stroke_width,
                                        arg_stroke_color, auto_stroke)
       IN  /\ stroke_width' = s.width
           /\ stroke_color' = s.color
    /\ pc' = "stroked"
    /\ UNCHANGED <<text, segments, parseVars, canvasVars, wrapVars, autoVars,
                   alignment, drawn, strokeVars, gradVars, cliVars, fontVars>>

StrokeNext == CalculateStrokeSettingsCall

SpecStroke == StrokeInit /\ [][StrokeNext]_vars

-----------------------------------------------------------------------------
(* image_generator.py: create_gradient_background.  The loop paints one row *)
(* (column) per iteration; the state keeps the colour painted last and the  *)
(* one before it.                                                           *)

\* The source evaluates c1 * (1 - ratio) + c2 * ratio in IEEE doubles, with
\* ratio = p / extent rounded, 1 - ratio rounded, each product rounded and the
\* sum rounded; int() then truncates.  For these <<c1, c2, p>> at extent 240
\* the exact value is an integer n and the doubles give n - 0.00000000000001,
\* which truncates to n - 1 (50 * (1 - 5/240) + 50 * (5/240) is
\* 49.99999999999999); for every other row of the colours below the doubles
\* truncate to the same integer as the exact value.
DoubleFallsBelow ==
    { <<50, 0, 192>>, <<50, 0, 216>> }
    \cup { <<c, c, p>> : c \in {50, 100}, p \in {5, 20, 26, 35, 41, 56, 71} }

\* int(color1[k] * (1 - ratio) + color2[k] * ratio), ratio = p / extent
Channel(c1, c2, p, extent) ==
    IF <<c1, c2, p>> \in DoubleFallsBelow
      THEN (c1 * (extent - p) + c2 * p) \div extent - 1
      ELSE (c1 * (extent - p) + c2 * p) \div extent

\* (r, g, b) of row or column p
GradientColor(c1, c2, p, extent) ==
    << Channel(c1[1], c2[1], p, extent),
       Channel(c1[2], c2[2], p, extent),
       Channel(c1[3], c2[3], p, extent) >>

\* range(self.height) if direction == 'vertical' else range(self.width)
Extent == IF direction = "vertical" THEN height ELSE width

\* backgrounds of ImageConfig.COLOR_SCHEMES
GradientStarts == { <<0, 0, 0>>, <<0, 50, 100>> }

\* gradient ends: colours of ImageConfig.COLORS and a scheme background
GradientEnds == { <<255, 255, 255>>, <<0, 0, 128>>, <<0, 50, 100>> }

GradientInit ==
    /\ pc = "idle"
    /\ color1 \in GradientStarts
    /\ color2 \in GradientEnds
    /\ direction \in {"vertical", "horizontal"}
    /\ position = 0
    /\ row = <<>>
    /\ prev_row = <<>>
    /\ width = IMAGE_WIDTH
    /\ height = IMAGE_HEIGHT
    /\ padding = DefaultPadding
    /\ font_size = 0
    /\ scalable = TRUE
    /\ text = <<>>
    /\ segments = <<>>
    /\ ParseIdle
    /\ WrapIdle
    /\ AutoIdle
    /\ DrawIdle
    /\ StrokeIdle
    /\ CliIdle
    /\ FontIdle

\* img = Image.new('RGB', (self.width, self.height)); draw = ImageDraw.Draw(img)
GradientBegin ==
    /\ pc = "idle"
    /\ pc' = "painting"
    /\ UNCHANGED <<text, segments, parseVars, canvasVars, wrapVars, autoVars, drawVars,
                   strokeVars, gradVars, cliVars, fontVars>>

\* one iteration of for y in range(self.height) / for x in range(self.width)
GradientPaint ==
    /\ pc = "painting"
    /\ position < Extent
    /\ row' = GradientColor(color1, color2, position, Extent)
    /\ prev_row' = row
    /\ position' = position + 1
    /\ UNCHANGED <<text, pc, segments, parseVars, canvasVars, wrapVars, autoVars, drawVars,
                   strokeVars, cliVars, fontVars, color1, color2, direction>>

\* return img
GradientReturn ==
    /\ pc = "painting"
    /\ position = Extent
    /\ pc' = "painted"
    /\ UNCHANGED <<text, segments, parseVars, canvasVars, wrapVars, autoVars, drawVars,
                   strokeVars, gradVars, cliVars, fontVars>>

GradientNext == GradientBegin \/ GradientPaint \/ GradientReturn

SpecGradient == GradientInit /\ [][GradientNext]_vars

-----------------------------------------------------------------------------
(* main.py and display_uploader.py: the command line, create_and_upload_text, *)
(* upload_file and DisplayUploader.upload_image.  A token of the command    *)
(* line is [kind, val]: kind "int" for a numeral (int(token) succeeds) with *)
(* its value, kind "str" for any other string.  An optional value is        *)
(* [some, v]; some = FALSE stands for Python's None.                        *)

N(n) == [kind |-> "int", val |-> n]

S(s) == [kind |-> "str", val |-> s]

NoInt == [some |-> FALSE, v |-> 0]

NoStr == [some |-> FALSE, v |-> ""]

Some(x) == [some |-> TRUE, v |-> x]

\* DisplayConfig.SLOTS
SLOTS == 1..5

\* the option strings of the parser that take one argument, by type
IntOptions == {"--slot", "--padding", "--padding-top", "--padding-bottom",
               "--padding-left", "--padding-right"}

StrOptions == {"--text", "--file"}

\* action='store_true'
FlagOptions == {"--save-local"}

\* the strings of the modelled command lines that start with "--"
DashStrings == IntOptions \cup StrOptions \cup FlagOptions \cup {"--bogus"}

\* token.startswith('--')
StartsWithDashes(tok) == tok.kind = "str" /\ tok.val \in DashStrings

\* token.endswith(('.jpg', '.jpeg', '.png', '.gif', '.bmp')), over the modelled strings
EndsWithImageSuffix(tok) == tok.kind = "str" /\ tok.val \in {"photo.jpg", "pic.png"}

\* the string of a token
StrOf(tok) == IF tok.kind = "int" THEN ToString(tok.val) ELSE tok.val

\* the defaults of parser.add_argument(...)
DefaultArgs ==
    [slot |-> 1, text |-> NoStr, file |-> NoStr, padding |-> NoInt,
     padding_top |-> NoInt, padding_bottom |-> NoInt, padding_left |-> NoInt,
     padding_right |-> NoInt, save_local |-> FALSE]

Store(ns, opt, val) ==
    CASE opt = "--slot"           -> [ns EXCEPT !.slot = val]
      [] opt = "--text"           -> [ns EXCEPT !.text = Some(val)]
      [] opt = "--file"           -> [ns EXCEPT !.file = Some(val)]
      [] opt = "--padding"        -> [ns EXCEPT !.padding = Some(val)]
      [] opt = "--padding-top"    -> [ns EXCEPT !.padding_top = Some(val)]
      [] opt = "--padding-bottom" -> [ns EXCEPT !.padding_bottom = Some(val)]
      [] opt = "--padding-left"   -> [ns EXCEPT !.padding_left = Some(val)]
      [] opt = "--padding-right"  -> [ns EXCEPT !.padding_right = Some(val)]

ParseError(msg) == [ok |-> FALSE, ns |-> DefaultArgs, error |-> msg]

\* argparse: options are consumed with their argument; a token that is neither an
\* option nor the argument of one is left over, and parse_args() rejects leftovers
RECURSIVE ParseLoop(_, _, _)
ParseLoop(toks, i, ns) ==
    IF i > Len(toks) THEN [ok |-> TRUE, ns |-> ns, error |-> ""]
    ELSE LET t == toks[i]
         IN  IF ~StartsWithDashes(t) THEN ParseError("unrecognized arguments")
             ELSE IF t.val \in FlagOptions
               THEN ParseLoop(toks, i + 1, [ns EXCEPT !.save_local = TRUE])
             ELSE IF t.val \notin IntOptions \cup StrOptions
               THEN ParseError("unrecognized arguments")
             ELSE IF i = Len(toks) \/ StartsWithDashes(toks[i + 1])
               THEN ParseError("expected one argument")
             ELSE LET v == toks[i + 1]
                  IN  IF t.val \in StrOptions
                        THEN ParseLoop(toks, i + 2, Store(ns, t.val, StrOf(v)))
                      ELSE IF v.kind # "int" THEN ParseError("invalid int value")
                      ELSE IF t.val = "--slot" /\ v.val \notin SLOTS
                        THEN ParseError("invalid choice")
                      ELSE ParseLoop(toks, i + 2, Store(ns, t.val, v.val))

\* args = parser.parse_args()
ParseArgs(toks) == ParseLoop(toks, 1, DefaultArgs)

\* bool(x) of an optional string / an optional integer
TruthyStr(o) == o.some /\ o.v # ""

TruthyInt(o) == o.some /\ o.v # 0

\* a or b
Or(a, b) == IF TruthyInt(a) THEN a ELSE b

\* if args.padding is not None: padding_x = padding_x or args.padding
PaddingOf(individual, combined) ==
    IF combined.some THEN Or(individual, combined) ELSE individual

\* the legacy tests of main(): len(sys.argv) == 3 / == 4, not
\* sys.argv[1].startswith('--'), int(sys.argv[1]) in 1..5, the suffix or 'text'
LegacyFile(toks) ==
    /\ Len(toks) = 2
    /\ ~StartsWithDashes(toks[1])
    /\ toks[1].kind = "int"
    /\ 1 <= toks[1].val /\ toks[1].val <= 5
    /\ EndsWithImageSuffix(toks[2])

LegacyText(toks) ==
    /\ Len(toks) = 3
    /\ ~StartsWithDashes(toks[1])
    /\ toks[1].kind = "int"
    /\ 1 <= toks[1].val /\ toks[1].val <= 5
    /\ toks[2].kind = "str"
    /\ toks[2].val = "text"

NoCall == [fn |-> "none", slot |-> 0, text |-> "", file |-> "", save_local |-> FALSE,
           padding_top |-> NoInt, padding_bottom |-> NoInt,
           padding_left |-> NoInt, padding_right |-> NoInt]

\* create_and_upload_text(slot=..., text=..., **kwargs)
CreateCall(slot, t, save, pt, pb, pl, pr) ==
    [fn |-> "create_and_upload_text", slot |-> slot, text |-> t, file |-> "",
     save_local |-> save, padding_top |-> pt, padding_bottom |-> pb,
     padding_left |-> pl, padding_right |-> pr]

\* upload_file(slot, file_path)
FileCall(slot, f) == [NoCall EXCEPT !.fn = "upload_file", !.slot = slot, !.file = f]

\* response.status_code of the POST, or the requests.RequestException it raised
PostOutcomes ==
    { [kind |-> "response", status |-> st, exception |-> ""] : st \in {200, 404, 500} }
    \cup { [kind |-> "exception", status |-> 0, exception |-> e] :
             e \in {"ConnectionError", "Timeout"} }

\* mutant: every response of the device counts as a success
UploadResultAnyResponse(o, slot) ==
    [success |-> (o.kind = "response"),
     status_code |-> IF o.kind = "response" THEN Some(o.status) ELSE NoInt,
     message |-> IF o.kind = "response" THEN "response.text" ELSE "str(e)",
     slot |-> slot, filename |-> <<"file", slot, ".jpg">>]

\* the dict returned by _upload_to_display(slot, jpeg_bytes, filename)
UploadResult(o, slot) ==
    IF o.kind = "response"
      THEN [success |-> (o.status = 200), status_code |-> Some(o.status),
            message |-> "response.text", slot |-> slot,
            filename |-> <<"file", slot, ".jpg">>]
      ELSE [success |-> FALSE, status_code |-> NoInt,
            message |-> "str(e)", slot |-> slot,
            filename |-> <<"file", slot, ".jpg">>]

MaxArgs == 3

Tokens == { N(1), N(9), S("photo.jpg"), S("text"), S("hi"),
            S("--slot"), S("--text"), S("--file"), S("--save-local"), S("--bogus") }

\* every command line of at most MaxArgs tokens
ShortLines == UNION { [1..n -> Tokens] : n \in 0..MaxArgs }

\* command lines in the flag form, with and without each group of flags
FlagLines ==
    { sl \o tx \o fl \o pa \o pt \o pl \o sv :
        sl \in { <<>>, <<S("--slot"), N(3)>>, <<S("--slot"), N(9)>> },
        tx \in { <<>>, <<S("--text"), S("hi")>> },
        fl \in { <<>>, <<S("--file"), S("photo.jpg")>> },
        pa \in { <<>>, <<S("--padding"), N(20)>>, <<S("--padding"), N(0)>> },
        pt \in { <<>>, <<S("--padding-top"), N(0)>>, <<S("--padding-top"), N(5)>> },
        pl \in { <<>>, <<S("--padding-left"), N(7)>> },
        sv \in { <<>>, <<S("--save-local")>> } }

CommandLines == ShortLines \cup FlagLines

\* direct calls create_and_upload_text(slot, "hi", save_local=...)
DirectCalls ==
    { CreateCall(slot, "hi", save, NoInt, NoInt, NoInt, NoInt) :
        slot \in {0, 3, 9}, save \in BOOLEAN }

layoutVars == <<text, segments, parseVars, width, height, font_size, scalable,
                wrapVars, autoVars, drawVars, strokeVars, gradVars, fontVars>>

CliInit ==
    /\ \/ /\ entry = "main"
          /\ argv \in CommandLines
          /\ call = NoCall
          /\ pc = "start"
       \/ /\ entry = "direct"
          /\ argv = <<>>
          /\ call \in DirectCalls
          /\ pc = "create"
    /\ args = DefaultArgs
    /\ kwargs = <<>>
    /\ events = <<>>
    /\ result = <<>>
    /\ error = ""
    /\ text = <<>>
    /\ segments = <<>>
    /\ ParseIdle
    /\ CanvasIdle
    /\ WrapIdle
    /\ AutoIdle
    /\ DrawIdle
    /\ StrokeIdle
    /\ GradIdle
    /\ FontIdle

\* args = parser.parse_args(): the namespace, or parser.error() and sys.exit(2)
MainParseArgs ==
    /\ pc = "start"
    /\ LET r == ParseArgs(argv)
       IN  IF r.ok
             THEN /\ args' = r.ns
                  /\ pc' = "parsed"
                  /\ error' = ""
             ELSE /\ args' = args
                  /\ pc' = "exited"
                  /\ error' = "SystemExit(2)"
    /\ UNCHANGED <<layoutVars, padding, entry, kwargs, argv, call, events, result>>

\* main() after parse_args(): the legacy dispatch, the validation of --text and
\* --file, the paddings and the call of create_and_upload_text or upload_file
MainDispatch ==
    /\ pc = "parsed"
    /\ IF LegacyFile(argv)
         THEN /\ call' = FileCall(argv[1].val, argv[2].val)
              /\ pc' = "upload_file"
              /\ error' = ""
       ELSE IF LegacyText(argv)
         THEN /\ call' = CreateCall(argv[1].val, StrOf(argv[3]), FALSE,
                                    NoInt, NoInt, NoInt, NoInt)
              /\ pc' = "create"
              /\ error' = ""
       ELSE IF (~TruthyStr(args.text) /\ ~TruthyStr(args.file))
                 \/ (TruthyStr(args.text) /\ TruthyStr(args.file))
         THEN /\ call' = call
              /\ pc' = "exited"
              /\ error' = "SystemExit(2)"
       ELSE IF TruthyStr(args.text)
         THEN /\ call' = CreateCall(args.slot, args.text.v, args.save_local,
                                    PaddingOf(args.padding_top, args.padding),
                                    PaddingOf(args.padding_bottom, args.padding),
                                    PaddingOf(args.padding_left, args.padding),
                                    PaddingOf(args.padding_right, args.padding))
              /\ pc' = "create"
              /\ error' = ""
       ELSE /\ call' = FileCall(args.slot, args.file.v)
            /\ pc' = "upload_file"
            /\ error' = ""
    /\ UNCHANGED <<layoutVars, padding, entry, kwargs, argv, args, events, result>>

\* generator = ImageGenerator(padding_top=..., ...): a padding that is None takes
\* the configured value
CreateConstruct ==
    /\ pc = "create"
    /\ padding' = [top    |-> IF call.padding_top.some THEN call.padding_top.v ELSE PADDING_TOP,
                   bottom |-> IF call.padding_bottom.some THEN call.padding_bottom.v ELSE PADDING_BOTTOM,
                   left   |-> IF call.padding_left.some THEN call.padding_left.v ELSE PADDING_LEFT,
                   right  |-> IF call.padding_right.some THEN call.padding_right.v ELSE PADDING_RIGHT]
    /\ pc' = "constructed"
    /\ UNCHANGED <<layoutVars, cliVars>>

\* image = generator.create_text_image(...) / create_with_gradient(...)
CreateRender ==
    /\ pc = "constructed"
    /\ events' = Append(events, "render")
    /\ pc' = "rendered"
    /\ UNCHANGED <<layoutVars, padding, entry, kwargs, argv, args, call, result, error>>

\* if save_local: utils.save_image_locally(image, slot=slot)
CreateSaveLocal ==
    /\ pc = "rendered"
    /\ call.save_local
    /\ events' = Append(events, "save")
    /\ pc' = "saved"
    /\ UNCHANGED <<layoutVars, padding, entry, kwargs, argv, args, call, result, error>>

\* uploader.upload_image(slot, image) up to the POST: the slot test, and for a
\* file path the test that the file exists
UploadImage ==
    /\ \/ pc = "upload_file"
       \/ pc = "saved"
       \/ pc = "rendered" /\ ~call.save_local
    /\ \E file_exists \in BOOLEAN :
          IF call.slot \notin SLOTS
            THEN pc' = "raised" /\ error' = "ValueError"
          ELSE IF call.fn = "upload_file" /\ ~file_exists
            THEN pc' = "raised" /\ error' = "FileNotFoundError"
          ELSE pc' = "posting" /\ error' = ""
    /\ UNCHANGED <<layoutVars, padding, entry, kwargs, argv, args, call, events, result>>

\* _upload_to_display(slot, jpeg_bytes, filename)
UploadToDisplay ==
    /\ pc = "posting"
    /\ \E o \in PostOutcomes : result' = UploadResult(o, call.slot)
    /\ events' = Append(events, "post")
    /\ pc' = "uploaded"
    /\ UNCHANGED <<layoutVars, padding, entry, kwargs, argv, args, call, error>>

\* the report of the result is printed; return result
ReturnResult ==
    /\ pc = "uploaded"
    /\ pc' = "returned"
    /\ UNCHANGED <<layoutVars, padding, cliVars>>

CliNext ==
    \/ MainParseArgs
    \/ MainDispatch
    \/ CreateConstruct
    \/ CreateRender
    \/ CreateSaveLocal
    \/ UploadImage
    \/ UploadToDisplay
    \/ ReturnResult

SpecCli == CliInit /\ [][CliNext]_vars

-----------------------------------------------------------------------------
(* image_generator.py: _get_font and _get_formatted_font.  The environment  *)
(* says which font files exist and which loads (ImageFont.truetype) succeed;*)
(* a load that does not succeed raises.  ImageFont.load_default() always    *)
(* returns the built-in font, which does not honour the size.               *)

Attempt(step, ok) == [step |-> step, ok |-> ok]

Handle(source) ==
    [source |-> source,
     sized  |-> source # "builtin",
     styled |-> source \in {"variant", "styled-name"}]

Resolved(source, attempts) == [font |-> Handle(source), tried |-> attempts]

\* _get_font(font_path, font_size)
GetFont(e) ==
    IF e.path_given /\ e.path_exists
      THEN IF e.path_loads
             THEN Resolved("requested", <<Attempt("requested", TRUE)>>)
             ELSE Resolved("builtin", <<Attempt("requested", FALSE), Attempt("builtin", TRUE)>>)
    ELSE IF e.default_found
      THEN IF e.default_loads
             THEN Resolved("default", <<Attempt("default", TRUE)>>)
             ELSE Resolved("builtin", <<Attempt("default", FALSE), Attempt("builtin", TRUE)>>)
    ELSE IF e.arial = 1
      THEN Resolved("name", <<Attempt("arial.ttf", TRUE)>>)
    ELSE IF e.arial = 2
      THEN Resolved("name", <<Attempt("arial.ttf", FALSE), Attempt("Arial", TRUE)>>)
    ELSE Resolved("builtin", <<Attempt("arial.ttf", FALSE), Attempt("Arial", FALSE),
                               Attempt("builtin", TRUE)>>)

\* the ultimate fallback of _get_formatted_font: return self._get_font(...)
ThenGetFont(attempts, e) ==
    [font |-> GetFont(e).font, tried |-> attempts \o GetFont(e).tried]

\* for font_name in [...]: try: return ImageFont.truetype(font_name, font_size)
StyledNames(e) ==
    IF e.styled_name = 1 THEN <<Attempt("styled-name-1", TRUE)>>
    ELSE IF e.styled_name = 2
      THEN <<Attempt("styled-name-1", FALSE), Attempt("styled-name-2", TRUE)>>
    ELSE <<Attempt("styled-name-1", FALSE), Attempt("styled-name-2", FALSE)>>

\* _get_formatted_font(base_font_path, font_size, bold, italic)
GetFormattedFont(e, bold, italic) ==
    IF e.path_given /\ e.path_exists
      THEN IF (bold \/ italic) /\ e.variant_exists
             THEN IF e.variant_loads
                    THEN Resolved("variant", <<Attempt("variant", TRUE)>>)
                    ELSE ThenGetFont(<<Attempt("variant", FALSE)>>, e)
           ELSE IF e.path_loads
             THEN Resolved("requested", <<Attempt("requested", TRUE)>>)
             ELSE ThenGetFont(<<Attempt("requested", FALSE)>>, e)
    ELSE IF e.default_found
      THEN LET names == IF bold \/ italic THEN StyledNames(e) ELSE <<>>
           IN  IF names # <<>> /\ names[Len(names)].ok
                 THEN Resolved("styled-name", names)
               ELSE IF e.default_loads
                 THEN Resolved("default", names \o <<Attempt("default", TRUE)>>)
               ELSE ThenGetFont(names \o <<Attempt("default", FALSE)>>, e)
    ELSE ThenGetFont(<<>>, e)

\* the font files of a system: a requested path that is given or not, exists or
\* not, loads or not; a variant file of it; the default font found by
\* _find_default_font or not, loading or not; which of the names probed loads
Environments ==
    { e \in [path_given : BOOLEAN, path_exists : BOOLEAN, path_loads : BOOLEAN,
             variant_exists : BOOLEAN, variant_loads : BOOLEAN,
             default_found : BOOLEAN, default_loads : BOOLEAN,
             styled_name : 0..2, arial : 0..2] :
        /\ e.path_exists => e.path_given
        /\ e.path_loads => e.path_exists
        /\ e.variant_exists => e.path_exists
        /\ e.variant_loads => e.variant_exists
        /\ e.default_loads => e.default_found }

Styles == [bold : BOOLEAN, italic : BOOLEAN]

FontInit ==
    /\ pc = "idle"
    /\ env \in Environments
    /\ style \in Styles
    /\ font_handle = <<>>
    /\ tried = <<>>
    /\ text = <<>>
    /\ segments = <<>>
    /\ ParseIdle
    /\ CanvasIdle
    /\ WrapIdle
    /\ AutoIdle
    /\ DrawIdle
    /\ StrokeIdle
    /\ GradIdle
    /\ CliIdle

\* font = self._get_font(font_path, font_size)
GetFontCall ==
    /\ pc = "idle"
    /\ font_handle' = GetFont(env).font
    /\ tried' = GetFont(env).tried
    /\ pc' = "font"
    /\ UNCHANGED <<text, segments, parseVars, canvasVars, wrapVars, autoVars, drawVars,
                   strokeVars, gradVars, cliVars, env, style>>

\* font = self._get_formatted_font(font_path, font_size, segment.bold, segment.italic)
GetFormattedFontCall ==
    /\ pc = "idle"
    /\ font_handle' = GetFormattedFont(env, style.bold, style.italic).font
    /\ tried' = GetFormattedFont(env, style.bold, style.italic).tried
    /\ pc' = "formatted_font"
    /\ UNCHANGED <<text, segments, parseVars, canvasVars, wrapVars, autoVars, drawVars,
                   strokeVars, gradVars, cliVars, env, style>>

FontNext == GetFontCall \/ GetFormattedFontCall

SpecFont == FontInit /\ [][FontNext]_vars

-----------------------------------------------------------------------------
(* One render call: create_and_upload_text up to the image, through         *)
(* create_text_image or create_with_gradient.  The functions called on the  *)
(* way are the operators above; the parser and the size search are taken as *)
(* whole calls here.                                                        *)

\* config_example.py: DEFAULT_FONT_SIZE
DEFAULT_FONT_SIZE == 24

\* utils.parse_color on the colour names used here (ImageConfig.COLORS)
ParseColor(name) ==
    CASE name = "red"    -> <<255, 0, 0>>
      [] name = "yellow" -> <<255, 255, 0>>
      [] name = "navy"   -> <<0, 0, 128>>
      [] name = "black"  -> Black
      [] OTHER           -> White

\* parse_html_formatting(text): the loop over the matches and the return
RECURSIVE ParseTags(_, _, _, _, _)
ParseTags(t, pos, ct, stack, segs) ==
    LET m == NextMatch(t, pos)
    IN  IF m.found
          THEN LET ct1 == IF m.start > pos THEN ct \o SubSeq(t, pos + 1, m.start) ELSE ct
               IN  ParseTags(t, m.end, <<>>,
                             IF m.closing THEN PopTag(stack, m.name) ELSE PushTag(stack, m.name),
                             Flush(segs, ct1, stack))
        ELSE LET ct1 == IF pos < Len(t) THEN ct \o SubSeq(t, pos + 1, Len(t)) ELSE ct
                 out == Flush(segs, ct1, stack)
             IN  IF out # <<>> THEN out ELSE <<TextSegment(t, FALSE, FALSE, FALSE)>>

ParseHtmlFormatting(t) ==
    IF t = <<>> \/ "<" \notin Range(t)
      THEN <<TextSegment(t, FALSE, FALSE, FALSE)>>
      ELSE ParseTags(t, 0, <<>>, <<>>, <<>>)

\* calculate_auto_font_size(text, font_path): the loop and the return
RECURSIVE AutoSizeLoop(_, _, _, _, _, _, _, _)
AutoSizeLoop(t, sc, w, h, n, lo, hi, best) ==
    IF n >= AutoSizeProbes \/ lo > hi THEN best
    ELSE LET mid_size == (lo + hi) \div 2
             r        == AfterProbe(lo, hi, best, mid_size, FitsAt(t, mid_size, sc, w, h))
         IN  AutoSizeLoop(t, sc, w, h, n + 1, r.min_size, r.max_size, r.best_size)

CalculateAutoFontSize(t, sc, w, h) ==
    AutoSizeLoop(t, sc, w, h, 0, MIN_AUTO_FONT_SIZE, MAX_AUTO_FONT_SIZE, MIN_AUTO_FONT_SIZE)

\* total_width of _draw_formatted_line_segments: every segment in its own font
RECURSIVE SegmentsWidth(_, _, _)
SegmentsWidth(line_segments, size, sc) ==
    IF line_segments = <<>> THEN 0
    ELSE TextWidth(Head(line_segments).text, FormattedFont(size, Head(line_segments), sc))
           + SegmentsWidth(Tail(line_segments), size, sc)

\* max_height of a line in _draw_formatted_text
SegmentsHeight(line_segments, size, sc) ==
    Max({0} \cup { TextHeight(line_segments[k].text, FormattedFont(size, line_segments[k], sc)) :
                     k \in 1..Len(line_segments) })

\* mutant: a justified formatted line starts at the left padding
FormattedStartXJustifyLeft(align, total_width, w, pad) ==
    IF align = "center" THEN (w - total_width) \div 2
    ELSE IF align = "left" THEN pad.left
    ELSE IF align = "right" THEN w - total_width - pad.right
    ELSE pad.left

\* current_x of _draw_formatted_line_segments before the first segment
FormattedStartX(align, total_width, w, pad) ==
    IF align = "center" THEN (w - total_width) \div 2
    ELSE IF align = "left" THEN pad.left
    ELSE IF align = "right" THEN w - total_width - pad.right
    ELSE (w - total_width) \div 2

\* for segment in line_segments: stroke, underline, text; current_x = bbox[2]
RECURSIVE DrawSegmentsLoop(_, _, _, _, _, _, _, _)
DrawSegmentsLoop(line_segments, k, current_x, y, sw, sc, size, scal) ==
    IF k > Len(line_segments) THEN <<>>
    ELSE LET segment == line_segments[k]
             f       == FormattedFont(size, segment, scal)
             right   == current_x + TextWidth(segment.text, f)
             under   == IF segment.underline
                          THEN <<[x |-> current_x, y |-> y + TextHeight(segment.text, f) + 1,
                                  text |-> segment.text, fill |-> "underline"]>>
                          ELSE <<>>
             stroke  == IF sw > 0 /\ sc # None
                          THEN <<[x |-> current_x, y |-> y, text |-> segment.text,
                                  fill |-> "stroke"]>>
                          ELSE <<>>
             fill    == <<[x |-> current_x, y |-> y, text |-> segment.text, fill |-> "text"]>>
         IN  IF segment.text # <<>>
               THEN stroke \o under \o fill
                      \o DrawSegmentsLoop(line_segments, k + 1, right, y, sw, sc, size, scal)
               ELSE DrawSegmentsLoop(line_segments, k + 1, current_x, y, sw, sc, size, scal)

\* _draw_formatted_line_segments(draw, line_segments, y, text_color, alignment, ...)
DrawFormattedLineSegments(line_segments, y, align, sw, sc, size, scal, w, pad) ==
    DrawSegmentsLoop(line_segments, 1,
                     FormattedStartX(align, SegmentsWidth(line_segments, size, scal), w, pad),
                     y, sw, sc, size, scal)

\* for i, line_segments in enumerate(formatted_lines): ...; one entry per line
RECURSIVE DrawFormattedLoop(_, _, _, _, _, _, _, _, _, _)
DrawFormattedLoop(fls, k, y, align, sw, sc, size, scal, w, pad) ==
    IF k > Len(fls) THEN <<>>
    ELSE <<DrawFormattedLineSegments(fls[k], y, align, sw, sc, size, scal, w, pad)>>
           \o DrawFormattedLoop(fls, k + 1,
                                y + SegmentsHeight(fls[k], size, scal) + EffectiveLineSpacing(sw),
                                align, sw, sc, size, scal, w, pad)

RECURSIVE SumSegmentsHeights(_, _, _)
SumSegmentsHeights(fls, size, scal) ==
    IF fls = <<>> THEN 0
    ELSE SegmentsHeight(Head(fls), size, scal) + SumSegmentsHeights(Tail(fls), size, scal)

\* _draw_formatted_text after the wrapping: formatted_lines are the wrapped lines
DrawFormattedText(fls, size, scal, align, sw, sc, w, h, pad) ==
    LET total_height     == SumSegmentsHeights(fls, size, scal)
                              + (Len(fls) - 1) * EffectiveLineSpacing(sw)
        available_height == h - pad.top - pad.bottom
        y                == pad.top + (available_height - total_height) \div 2
    IN  DrawFormattedLoop(fls, 1, y, align, sw, sc, size, scal, w, pad)

-----------------------------------------------------------------------------
(* Inputs of a render call: texts without and with markup, the configured   *)
(* paddings, narrow side paddings and wide paddings, and keyword arguments  *)
(* for the size, the alignment, the background, the stroke and the markup.  *)

CloseU == <<"<", "/", "u", ">">>

RenderTexts ==
    { <<"a", " ", "W">>,
      <<"W", "W", " ", "a", " ", "a">>,
      OpenB \o <<"a">> \o CloseB \o <<" ", "W">>,
      OpenB \o <<"W">> \o CloseB \o <<" ">> \o OpenU \o <<"a", " ", "a">> \o CloseU }

WidePadding == [top |-> 60, bottom |-> 60, left |-> 40, right |-> 40]

RenderPaddings == WrapPaddings \cup { WidePadding }

\* font_size and auto_size
Sizings == { [font_size |-> NoInt, auto_size |-> FALSE],
             [font_size |-> Some(60), auto_size |-> FALSE],
             [font_size |-> NoInt, auto_size |-> TRUE] }

\* text_stroke, stroke_width, stroke_color and font_color
Stylings ==
    { [text_stroke |-> FALSE, stroke_width |-> 0, stroke_color |-> None, font_color |-> None],
      [text_stroke |-> FALSE, stroke_width |-> 2, stroke_color |-> None, font_color |-> None],
      [text_stroke |-> TRUE,  stroke_width |-> 0, stroke_color |-> None, font_color |-> "red"],
      [text_stroke |-> FALSE, stroke_width |-> 0, stroke_color |-> "yellow", font_color |-> "red"],
      [text_stroke |-> FALSE, stroke_width |-> 3, stroke_color |-> "yellow", font_color |-> "navy"] }

Kwargs ==
    { [font_size |-> sz.font_size, auto_size |-> sz.auto_size, text_align |-> al,
       gradient |-> gr, gradient_end |-> IF gr THEN "navy" ELSE None,
       text_stroke |-> st.text_stroke, stroke_width |-> st.stroke_width,
       stroke_color |-> st.stroke_color, font_color |-> st.font_color,
       no_auto_stroke |-> FALSE, enable_html |-> eh] :
        sz \in Sizings, al \in Alignments, gr \in BOOLEAN, st \in Stylings, eh \in BOOLEAN }

RenderInit ==
    /\ text \in RenderTexts
    /\ kwargs \in Kwargs
    /\ padding \in RenderPaddings
    /\ pc = "call"
    /\ entry = "create_and_upload_text"
    /\ width = IMAGE_WIDTH
    /\ height = IMAGE_HEIGHT
    /\ font_size = 0
    /\ scalable = TRUE
    /\ segments = <<>>
    /\ argv = <<>>
    /\ args = <<>>
    /\ call = <<>>
    /\ events = <<>>
    /\ result = <<>>
    /\ error = ""
    /\ ParseIdle
    /\ WrapIdle
    /\ AutoIdle
    /\ DrawIdle
    /\ StrokeIdle
    /\ GradIdle
    /\ FontIdle

\* create_and_upload_text from the keyword arguments to the call of the generator
CreatePrepare ==
    /\ pc = "call"
    /\ kwargs' = [kwargs EXCEPT !.enable_html = kwargs.enable_html \/ HasHtmlTags(text)]
    /\ font_size' = IF kwargs.auto_size THEN -1
                    ELSE IF ~kwargs.font_size.some THEN DEFAULT_FONT_SIZE
                    ELSE kwargs.font_size.v
    /\ text_color' = IF kwargs.font_color # None THEN ParseColor(kwargs.font_color) ELSE White
    /\ background_color' = Black
    /\ arg_stroke_width' = IF kwargs.text_stroke /\ kwargs.stroke_width = 0
                             THEN 1 ELSE kwargs.stroke_width
    /\ arg_stroke_color' = IF kwargs.stroke_color # None
                             THEN ParseColor(kwargs.stroke_color) ELSE None
    /\ auto_stroke' = /\ (kwargs.text_stroke \/ kwargs.stroke_width > 0
                            \/ kwargs.stroke_color # None)
                      /\ ~kwargs.no_auto_stroke
    /\ IF kwargs.gradient /\ kwargs.gradient_end # None
         THEN /\ entry' = "create_with_gradient"
              /\ color1' = Black
              /\ color2' = ParseColor(kwargs.gradient_end)
         ELSE /\ entry' = "create_text_image"
              /\ UNCHANGED <<color1, color2>>
    /\ pc' = "prepared"
    /\ UNCHANGED <<text, segments, parseVars, width, height, padding, scalable, wrapVars,
                   autoVars, drawVars, direction, position, row, prev_row,
                   argv, args, call, events, result, error, fontVars>>

\* create_text_image / create_with_gradient: if auto_size or font_size == -1: ...
RenderFontSize ==
    /\ pc = "prepared"
    /\ IF kwargs.auto_size \/ font_size = -1
         THEN /\ font_size' = CalculateAutoFontSize(text, scalable, width, height)
              /\ events' = Append(events, "autosize")
         ELSE UNCHANGED <<font_size, events>>
    /\ pc' = "font_sized"
    /\ UNCHANGED <<text, segments, parseVars, width, height, padding, scalable, wrapVars,
                   autoVars, drawVars, strokeVars, gradVars,
                   entry, argv, args, call, kwargs, result, error, fontVars>>

\* final_stroke_width, final_stroke_color = self._calculate_stroke_settings(...),
\* against the background or the average of the gradient's colours
RenderStroke ==
    /\ pc = "font_sized"
    /\ LET avg_bg == [k \in 1..3 |-> (color1[k] + color2[k]) \div 2]
           bg     == IF entry = "create_with_gradient" THEN avg_bg ELSE background_color
           s      == CalculateStrokeSettings(text_color, bg, arg_stroke_width,
                                             arg_stroke_color, auto_stroke)
       IN  /\ stroke_width' = s.width
           /\ stroke_color' = s.color
    /\ pc' = "stroke_set"
    /\ UNCHANGED <<text, segments, parseVars, canvasVars, wrapVars, autoVars,
                   alignment, drawn, strokeVars, gradVars, cliVars, fontVars>>

\* if enable_html: segments = utils.parse_html_formatting(text)
RenderParse ==
    /\ pc = "stroke_set"
    /\ kwargs.enable_html
    /\ segments' = ParseHtmlFormatting(text)
    /\ events' = Append(events, "parse")
    /\ pc' = "markup_parsed"
    /\ UNCHANGED <<text, parseVars, canvasVars, wrapVars, autoVars, drawVars, strokeVars,
                   gradVars, entry, argv, args, call, kwargs, result, error, fontVars>>

\* the final wrapping: _wrap_text, or _wrap_formatted_text in _draw_formatted_text
RenderWrap ==
    /\ \/ pc = "stroke_set" /\ ~kwargs.enable_html
       \/ pc = "markup_parsed"
    /\ IF kwargs.enable_html
         THEN /\ fmt_lines' = WrapFormattedText(segments, font_size, scalable, width, padding)
              /\ UNCHANGED lines
         ELSE /\ lines' = WrapText(text, Font(font_size, FALSE, scalable), width, padding)
              /\ UNCHANGED fmt_lines
    /\ events' = Append(events, "wrap")
    /\ pc' = "lines_wrapped"
    /\ UNCHANGED <<text, segments, parseVars, canvasVars, lines_again, size_lines, autoVars,
                   drawVars, strokeVars, gradVars, entry, argv, args, call, kwargs, result,
                   error, fontVars>>

\* the drawing: _draw_multiline_text or the rest of _draw_formatted_text, with
\* the alignment argument for a solid background and 'center' for a gradient
RenderDraw ==
    /\ pc = "lines_wrapped"
    /\ alignment' = IF entry = "create_with_gradient" THEN "center" ELSE kwargs.text_align
    /\ drawn' = IF kwargs.enable_html
                  THEN DrawFormattedText(fmt_lines, font_size, scalable, alignment',
                                         stroke_width, stroke_color, width, height, padding)
                  ELSE DrawMultilineText(lines, Font(font_size, FALSE, scalable), alignment',
                                         stroke_width, stroke_color, width, height, padding)
    /\ events' = Append(events, "draw")
    /\ pc' = "image_drawn"
    /\ UNCHANGED <<text, segments, parseVars, canvasVars, wrapVars, autoVars, stroke_width,
                   stroke_color, strokeVars, gradVars, entry, argv, args, call, kwargs,
                   result, error, fontVars>>

RenderNext ==
    \/ CreatePrepare
    \/ RenderFontSize
    \/ RenderStroke
    \/ RenderParse
    \/ RenderWrap
    \/ RenderDraw

SpecRender == RenderInit /\ [][RenderNext]_vars

-----------------------------------------------------------------------------
(* Reference reading of an input, fragment by fragment: the text between   *)
(* recognised tags, and per tag name the number of openings still active.  *)

IsOpenPiece(p) == p \in {OpenB, OpenI, OpenU}

IsClosePiece(p) == p \in {CloseB, CloseI}

PieceName(p) == CASE p \in {OpenB, CloseB} -> "b"
                  [] p \in {OpenI, CloseI} -> "i"
                  [] OTHER -> "u"

NoneActive == [t \in TagNames |-> 0]

RECURSIVE ExpectedRuns(_, _, _)
ExpectedRuns(ps, depth, cur) ==
    LET seg == IF cur = <<>> THEN <<>>
               ELSE <<TextSegment(cur, depth["b"] > 0, depth["i"] > 0, depth["u"] > 0)>>
    IN  IF ps = <<>> THEN seg
        ELSE LET p == Head(ps)
                 n == PieceName(p)
             IN  IF IsOpenPiece(p)
                   THEN seg \o ExpectedRuns(Tail(ps), [depth EXCEPT ![n] = @ + 1], <<>>)
                 ELSE IF IsClosePiece(p)
                   THEN seg \o ExpectedRuns(Tail(ps),
                                 [depth EXCEPT ![n] = IF @ > 0 THEN @ - 1 ELSE 0], <<>>)
                 ELSE ExpectedRuns(Tail(ps), depth, cur \o p)

\* the pattern matches somewhere in t / matches an opening tag somewhere in t
ContainsTag(t) == \E p \in 1..Len(t) : TagMatchAt(t, p).found

ContainsOpeningTag(t) ==
    \E p \in 1..Len(t) : TagMatchAt(t, p).found /\ ~TagMatchAt(t, p).closing

Unformatted(s) == ~s.bold /\ ~s.italic /\ ~s.underline

Count(stack, name) == Cardinality({k \in 1..Len(stack) : stack[k] = name})

-----------------------------------------------------------------------------
(* C1-C4: the markup parser *)

\* C1: every non-empty run of text between two consecutive recognised tags
\* is exactly one returned segment, in input order, text unchanged, and flagged
\* bold/italic/underline iff that tag is active at that point at any nesting
\* depth.
C1_RunsBecomeSegments ==
    pc = "done" =>
        LET runs == ExpectedRuns(pieces, NoneActive, <<>>)
        IN  runs # <<>> => segments = runs

\* "<b>x</b> y" has been parsed into [("x", bold), (" y", plain)]
C1_Witness ==
    /\ pc = "done"
    /\ pieces = <<OpenB, PlainX, CloseB, PlainY>>
    /\ segments = << TextSegment(<<"x">>, TRUE, FALSE, FALSE),
                     TextSegment(<<" ", "y">>, FALSE, FALSE, FALSE) >>

C3_HasTagsIffOpeningTag ==
    pc # "idle" => (has_tags <=> ContainsOpeningTag(text))

\* C4, the three parts as steps of the parser loop.
\* (a) a closing tag of a name that is not active leaves the stack unchanged
C4_InactiveClosingIsNoop ==
    LET m == NextMatch(text, last_pos)
    IN  (pc = "scan" /\ m.found /\ m.closing /\ m.name \notin Range(format_stack))
            => format_stack' = format_stack

\* (b) an active name stays active, and flags the text that follows, until a
\* closing tag of that name
C4_UnclosedStaysActive ==
    LET m == NextMatch(text, last_pos)
    IN  \A t \in TagNames :
          (pc = "scan" /\ t \in Range(format_stack)
                       /\ ~(m.found /\ m.closing /\ m.name = t))
            => /\ t \in Range(format_stack')
               /\ PendingText # <<>> =>
                     /\ Len(segments') = Len(segments) + 1
                     /\ segments'[Len(segments')].text = PendingText
                     /\ t = "b" => segments'[Len(segments')].bold
                     /\ t = "i" => segments'[Len(segments')].italic
                     /\ t = "u" => segments'[Len(segments')].underline

\* (c) as stated: the stack holds each name at most once
C4_StackIsSet ==
    \A t \in TagNames : Count(format_stack', t) <= 1

\* (c) amended: the stack is a list; an opening tag adds one entry also when
\* its name is already active, a closing tag of an active name removes one
C4_StackIsList ==
    LET m == NextMatch(text, last_pos)
    IN  (pc = "scan" /\ m.found) =>
          \A t \in TagNames :
            Count(format_stack', t) =
              IF t # m.name THEN Count(format_stack, t)
              ELSE IF ~m.closing THEN Count(format_stack, t) + 1
              ELSE IF Count(format_stack, t) > 0 THEN Count(format_stack, t) - 1
              ELSE 0

\* C4 as stated
C4_MalformedToleratedSet ==
    [][C4_InactiveClosingIsNoop /\ C4_UnclosedStaysActive /\ C4_StackIsSet]_vars

\* C4 amended
C4_MalformedToleratedList ==
    [][C4_InactiveClosingIsNoop /\ C4_UnclosedStaysActive /\ C4_StackIsList]_vars

\* "</i><b><b> y": a closing tag that was not active, a nested repeat that is
\* never closed, and the text after it bold
C4_Witness ==
    /\ pc = "done"
    /\ pieces = <<CloseI, OpenB, OpenB, PlainY>>
    /\ format_stack = <<"b", "b">>
    /\ segments = <<TextSegment(<<" ", "y">>, TRUE, FALSE, FALSE)>>

-----------------------------------------------------------------------------
(* C5-C6: the line breakers *)

PlainFont == Font(font_size, FALSE, scalable)

MaxWidth == width - (padding.left + padding.right)

\* measured width of a formatted line: the widths of its segments, each in its font
RECURSIVE FormattedWidth(_)
FormattedWidth(fl) ==
    IF fl = <<>> THEN 0
    ELSE TextWidth(Head(fl).text, FormattedFont(font_size, Head(fl), scalable))
           + FormattedWidth(Tail(fl))

\* the word segments of a formatted line (the space segments left out)
FormattedWords(fl) == SelectSeq(fl, LAMBDA s : s.text # <<" ">> /\ s.text # <<>>)

\* a line of two or more words fits; a wider line is one unsplit input word
PlainLineFits(line, max_width) ==
    LET ws == Split(line)
    IN  /\ Len(ws) >= 2 => TextWidth(line, PlainFont) <= max_width
        /\ TextWidth(line, PlainFont) > max_width =>
              /\ Len(ws) = 1
              /\ line = ws[1]
              /\ ws[1] \in Range(Split(text))

FormattedLineFits(fl, max_width) ==
    LET ws == FormattedWords(fl)
    IN  /\ Len(ws) >= 2 => FormattedWidth(fl) <= max_width
        /\ FormattedWidth(fl) > max_width =>
              /\ Len(ws) = 1
              /\ fl = ws
              /\ ws[1] \in Range(WordSegments(segments))

\* C5 as stated: in the lines of _wrap_text, _wrap_text_for_size and
\* _wrap_formatted_text every line of two or more words measures at most
\* max_width, and a wider line is a single unsplit word on a line by itself.
C5_LineWidth ==
    /\ pc \in {"wrapped", "rewrapped", "sized", "formatted"} =>
          \A k \in 1..Len(lines) : PlainLineFits(lines[k], MaxWidth)
    /\ pc \in {"sized", "formatted"} =>
          \A k \in 1..Len(size_lines) :
              PlainLineFits(size_lines[k], width - 2 * AUTO_SIZE_PADDING)
    /\ pc = "formatted" =>
          \A k \in 1..Len(fmt_lines) : FormattedLineFits(fmt_lines[k], MaxWidth)

\* C5 amended: as C5, for every text that holds at least one word; a text
\* without any word (empty or whitespace only) is returned by _wrap_text and
\* _wrap_text_for_size as the one line it is, however wide it measures.
C5_LineWidthOfWords ==
    /\ pc \in {"wrapped", "rewrapped", "sized", "formatted"} =>
          IF Split(text) = <<>> THEN lines = <<text>>
          ELSE \A k \in 1..Len(lines) : PlainLineFits(lines[k], MaxWidth)
    /\ pc \in {"sized", "formatted"} =>
          IF Split(text) = <<>> THEN size_lines = <<text>>
          ELSE \A k \in 1..Len(size_lines) :
                  PlainLineFits(size_lines[k], width - 2 * AUTO_SIZE_PADDING)
    /\ pc = "formatted" =>
          \A k \in 1..Len(fmt_lines) : FormattedLineFits(fmt_lines[k], MaxWidth)

\* a word wider than max_width stands alone on the first line and the next
\* line holds two words, in the plain and in the formatted result
C5_Witness ==
    /\ pc = "formatted"
    /\ Len(lines) = 2
    /\ TextWidth(lines[1], PlainFont) > MaxWidth
    /\ Len(Split(lines[2])) = 2
    /\ Len(fmt_lines) = 2
    /\ FormattedWidth(fmt_lines[1]) > MaxWidth
    /\ Len(FormattedWords(fmt_lines[2])) = 2

\* C6: the lines of _wrap_text, joined with single spaces and wrapped again
\* at the same width with the same font, are the same lines.
C6_WrapIdempotent ==
    pc \in {"rewrapped", "sized", "formatted"} => lines_again = lines

\* a text that wraps into several lines and differs from its rejoined lines
C6_Witness ==
    /\ pc = "rewrapped"
    /\ Len(lines) >= 2
    /\ Join(lines) # text
    /\ lines_again = lines

-----------------------------------------------------------------------------
(* C7-C8: the size search *)

FittingProbes == {probed[k].size : k \in {j \in 1..Len(probed) : probed[j].fits}}

Fits(size) == FitsAt(text, size, scalable, width, height)

\* C7: calculate_auto_font_size returns the largest probed size at which
\* the wrapped text fitted the height and the width budget, or
\* MIN_AUTO_FONT_SIZE when no probed size fitted; the result lies in
\* [MIN_AUTO_FONT_SIZE, MAX_AUTO_FONT_SIZE].
C7_LargestFittingProbe ==
    pc = "done" =>
        /\ \A k \in 1..Len(probed) : probed[k].fits = Fits(probed[k].size)
        /\ font_size = IF FittingProbes = {} THEN MIN_AUTO_FONT_SIZE ELSE Max(FittingProbes)
        /\ font_size >= MIN_AUTO_FONT_SIZE
        /\ font_size <= MAX_AUTO_FONT_SIZE

\* the search returned a size strictly inside the range, after probes that
\* fitted and probes that did not, the last probe being one that did not
C7_Witness ==
    /\ pc = "done"
    /\ font_size > MIN_AUTO_FONT_SIZE
    /\ font_size < MAX_AUTO_FONT_SIZE
    /\ FittingProbes # {}
    /\ ~probed[Len(probed)].fits

\* C8 as stated: the text fits at the returned size s and, if s + 1 <= max_size,
\* does not fit at s + 1.
C8_FitMonotonicity ==
    pc = "done" =>
        /\ Fits(font_size)
        /\ font_size + 1 <= MAX_AUTO_FONT_SIZE => ~Fits(font_size + 1)

\* C8 amended: if the text fits at MIN_AUTO_FONT_SIZE, it fits at the
\* returned size s; in every case, if s + 1 <= max_size, it does not fit at
\* s + 1 (when it does not fit at MIN_AUTO_FONT_SIZE, that size is returned
\* all the same).
C8_FitMonotonicityAboveMin ==
    pc = "done" =>
        /\ Fits(MIN_AUTO_FONT_SIZE) => Fits(font_size)
        /\ ~Fits(MIN_AUTO_FONT_SIZE) => font_size = MIN_AUTO_FONT_SIZE
        /\ font_size + 1 <= MAX_AUTO_FONT_SIZE => ~Fits(font_size + 1)

\* a text of several words that fits at the minimum: the returned size is
\* inside the range, fits, and the next size does not
C8_Witness ==
    /\ pc = "done"
    /\ Len(Split(text)) >= 2
    /\ Fits(MIN_AUTO_FONT_SIZE)
    /\ font_size > MIN_AUTO_FONT_SIZE
    /\ font_size < MAX_AUTO_FONT_SIZE
    /\ Fits(font_size)
    /\ ~Fits(font_size + 1)


-----------------------------------------------------------------------------
(* The plain renderer's alignment 'justify'.                                *)

\* the draw.text calls in the text colour, as <<x, text>>
TextOps(ops) ==
    LET idx == { k \in 1..Len(ops) : ops[k].fill = "text" }
        RECURSIVE Take(_)
        Take(k) == IF k > Len(ops) THEN <<>>
                   ELSE (IF k \in idx THEN <<[x |-> ops[k].x, text |-> ops[k].text]>> ELSE <<>>)
                        \o Take(k + 1)
    IN  Take(1)

WordWidth(word) == TextWidth(word, PlainFont)

\* the width of the first k words
RECURSIVE WidthOfFirst(_, _)
WidthOfFirst(ws, k) == IF k = 0 THEN 0 ELSE WidthOfFirst(ws, k - 1) + WordWidth(ws[k])

\* available_width - sum(word_widths)
SpaceOf(ws) == MaxWidth - WidthOfFirst(ws, Len(ws))

CenteredOps(line) == <<[x |-> (width - TextWidth(line, PlainFont)) \div 2, text |-> line]>>

\* word k of a justified line starts after the k - 1 words and k - 1 even gaps before it
JustifiedOps(line) ==
    LET ws == Split(line)
        n  == Len(ws)
    IN  IF n <= 1 THEN CenteredOps(line)
        ELSE IF SpaceOf(ws) >= 0
          THEN [k \in 1..n |-> [x    |-> padding.left + WidthOfFirst(ws, k - 1)
                                           + ((k - 1) * SpaceOf(ws)) \div (n - 1),
                                text |-> ws[k]]]
          ELSE <<[x |-> padding.left, text |-> Join(ws)]>>

\* C9: with alignment 'justify' and more than one line, every line but the last is
\* drawn word by word from padding_left with the space left by the words divided
\* evenly over the gaps, or as one run at padding_left when that space is negative;
\* the last line and a one-word line are drawn centered at (width - line_width) // 2.
C9_PlainJustify ==
    /\ (pc = "drawn" /\ alignment = "justify") =>
          /\ Len(drawn) = Len(lines)
          /\ \A i \in 1..Len(lines) :
                TextOps(drawn[i]) = IF i < Len(lines) THEN JustifiedOps(lines[i])
                                                      ELSE CenteredOps(lines[i])
    /\ pc = "justified" => TextOps(drawn[1]) = JustifiedOps(text)

\* a three-word line justified with a space the two gaps do not divide, above a
\* centered last line
C9_Witness ==
    /\ pc = "drawn"
    /\ alignment = "justify"
    /\ Len(lines) = 2
    /\ Len(Split(lines[1])) = 3
    /\ SpaceOf(Split(lines[1])) % 2 = 1
    /\ Len(TextOps(drawn[1])) = 3
    /\ TextOps(drawn[2]) = CenteredOps(lines[2])

\* the lines drawn justified word by word: <<line, draw calls>>
JustifiedLines ==
    IF pc = "drawn" /\ alignment = "justify"
      THEN { <<lines[i], TextOps(drawn[i])>> : i \in 1..(Len(lines) - 1) }
    ELSE IF pc = "justified" THEN { <<text, TextOps(drawn[1])>> }
    ELSE {}

\* C10: for a justified line of n >= 2 words with W >= sum(wi), the first word
\* starts at padding_left, the last word ends within n - 1 pixels of
\* padding_left + W and never beyond it, no word starts before the one before it
\* ends, and every gap is within one pixel of (W - sum(wi)) / (n - 1).
C10_JustifySpacing ==
    \A jl \in JustifiedLines :
        LET ws  == Split(jl[1])
            ops == jl[2]
            n   == Len(ws)
            T   == SpaceOf(ws)
        IN  (n >= 2 /\ T >= 0) =>
              /\ Len(ops) = n
              /\ ops[1].x = padding.left
              /\ ops[n].x + WordWidth(ws[n]) <= padding.left + MaxWidth
              /\ ops[n].x + WordWidth(ws[n]) >= padding.left + MaxWidth - (n - 1)
              /\ \A k \in 1..(n - 1) :
                    LET gap == ops[k + 1].x - (ops[k].x + WordWidth(ws[k]))
                    IN  /\ gap >= 0
                        /\ gap * (n - 1) > T - (n - 1)
                        /\ gap * (n - 1) < T + (n - 1)

\* a justified line of three words whose two gaps differ by the pixel of rounding
C10_Witness ==
    \E jl \in JustifiedLines :
        /\ Len(Split(jl[1])) = 3
        /\ SpaceOf(Split(jl[1])) > 0
        /\ Len(jl[2]) = 3
        /\ LET ws  == Split(jl[1])
               ops == jl[2]
           IN  (ops[2].x - (ops[1].x + WordWidth(ws[1])))
                 # (ops[3].x - (ops[2].x + WordWidth(ws[2])))

-----------------------------------------------------------------------------
(* The stroke policy.                                                       *)

\* 1000 times the perceptual brightness of a colour
Brightness1000(c) == 299 * c[1] + 587 * c[2] + 114 * c[3]

HeuristicColor(c) == IF Brightness1000(c) > 128000 THEN <<0, 0, 0>> ELSE <<255, 255, 255>>

\* C11: a stroke width of 0 without auto_stroke gives no stroke (0, None) whatever
\* the colours; a stroke width > 0 gives that width with the supplied stroke colour,
\* or with black when the brightness of the text colour exceeds 128 and white
\* otherwise, whatever auto_stroke and the background are.
C11_ExplicitStroke ==
    pc = "stroked" =>
        /\ (arg_stroke_width = 0 /\ ~auto_stroke) =>
              (stroke_width = 0 /\ stroke_color = None)
        /\ arg_stroke_width > 0 =>
              /\ stroke_width = arg_stroke_width
              /\ stroke_color = IF arg_stroke_color # None THEN arg_stroke_color
                                ELSE HeuristicColor(text_color)

\* an explicit width without a colour, auto_stroke requested, on a text colour of
\* brightness exactly 128: the width is kept and the colour is white
C11_Witness ==
    /\ pc = "stroked"
    /\ arg_stroke_width = 3
    /\ arg_stroke_color = None
    /\ auto_stroke
    /\ Brightness1000(text_color) = 128000
    /\ stroke_width = 3
    /\ stroke_color = <<255, 255, 255>>

\* 2550000 times (luminance + 0.05)
Lum(c) == 2126 * c[1] + 7152 * c[2] + 722 * c[3] + 127500

\* the contrast ratio of two colours is below 7.0
LowContrast(c1, c2) ==
    IF Lum(c1) >= Lum(c2) THEN Lum(c1) < 7 * Lum(c2) ELSE Lum(c2) < 7 * Lum(c1)

\* C12: with auto_stroke and no explicit width, a stroke of 1 pixel is selected iff
\* the contrast ratio of text and background is below 7.0 and the text is not
\* pure white, coloured by the brightness heuristic of the text colour; otherwise
\* there is no stroke.  Red on black selects a stroke, white on black does not.
C12_AutoStroke ==
    (pc = "stroked" /\ auto_stroke /\ arg_stroke_width = 0) =>
        /\ stroke_width \in {0, 1}
        /\ stroke_width = 1 <=>
              (LowContrast(text_color, background_color) /\ text_color # <<255, 255, 255>>)
        /\ stroke_width = 1 => stroke_color = HeuristicColor(text_color)
        /\ stroke_width = 0 => stroke_color = None
        /\ (text_color = <<255, 0, 0>> /\ background_color = <<0, 0, 0>>) => stroke_width = 1
        /\ (text_color = <<255, 255, 255>> /\ background_color = <<0, 0, 0>>) => stroke_width = 0

\* red on black with auto_stroke: a white stroke of one pixel
C12_Witness ==
    /\ pc = "stroked"
    /\ auto_stroke
    /\ arg_stroke_width = 0
    /\ text_color = <<255, 0, 0>>
    /\ background_color = <<0, 0, 0>>
    /\ stroke_width = 1
    /\ stroke_color = <<255, 255, 255>>

-----------------------------------------------------------------------------
(* The gradient fill.                                                       *)

Between(v, a, b) == (a <= v /\ v <= b) \/ (b <= v /\ v <= a)

\* v is at least as far from a towards b as u is
Toward(u, v, a, b) == IF a <= b THEN u <= v ELSE u >= v

\* C13: each channel of row (column) p is c1 * (1 - t) + c2 * t, t = p / extent,
\* truncated to an integer; row 0 is exactly c1; every channel lies between the
\* channels of c1 and c2; from one row to the next every channel moves towards c2,
\* never back; from (0,0,0) to (255,255,255) the top row is (0,0,0).
C13_GradientFill ==
    (pc \in {"painting", "painted"} /\ position >= 1) =>
        LET p == position - 1
        IN  /\ \A k \in 1..3 :
                  /\ row[k] = (color1[k] * (Extent - p) + color2[k] * p) \div Extent
                  /\ Between(row[k], color1[k], color2[k])
                  /\ p >= 1 => Toward(prev_row[k], row[k], color1[k], color2[k])
            /\ p = 0 => row = color1
            /\ (p = 0 /\ color1 = <<0, 0, 0>> /\ color2 = <<255, 255, 255>>) => row = <<0, 0, 0>>

-----------------------------------------------------------------------------
(* The command line and the upload.                                         *)

\* C14: the record returned by the upload holds success, status_code, message,
\* slot and filename, with success true iff the HTTP status is 200; an exception
\* of the POST gives success false and status_code None and ends no run; a call of
\* create_and_upload_text with a valid slot ends by returning the record, after
\* the image was rendered and, when requested, saved.
C14_UploadOutcome ==
    /\ pc \in {"uploaded", "returned"} =>
          /\ DOMAIN result = {"success", "status_code", "message", "slot", "filename"}
          /\ result.success <=> (result.status_code.some /\ result.status_code.v = 200)
          /\ result.message = "str(e)" => (~result.success /\ ~result.status_code.some)
          /\ result.slot = call.slot
          /\ error = ""
    /\ (call.fn = "create_and_upload_text" /\ call.slot \in SLOTS) =>
          /\ pc \notin {"raised", "exited"}
          /\ pc = "returned" =>
                events = <<"render">> \o (IF call.save_local THEN <<"save">> ELSE <<>>)
                           \o <<"post">>

\* the POST raised, after the image was rendered and saved: the call returns the
\* record of the failure
C14_Witness ==
    /\ pc = "returned"
    /\ call.fn = "create_and_upload_text"
    /\ events = <<"render", "save", "post">>
    /\ ~result.success
    /\ ~result.status_code.some

\* the run was rejected: the parser exited, or upload_image raised ValueError
Rejected == pc = "exited" \/ (pc = "raised" /\ error = "ValueError")

\* C15: when a run is rejected for its slot or for its --text / --file flags,
\* nothing was rendered, saved or posted before the rejection, on the command
\* line and in a direct call of create_and_upload_text.
C15_RejectedBeforeWork == Rejected => events = <<>>

\* C16: with an individual padding flag and --padding both given, the side takes
\* the individual value, whatever it is, 0 included; a side without its flag takes
\* the value of --padding.
C16_PaddingPrecedence ==
    (entry = "main" /\ pc = "constructed" /\ args.padding.some) =>
        /\ padding.top = IF args.padding_top.some THEN args.padding_top.v ELSE args.padding.v
        /\ padding.bottom = IF args.padding_bottom.some THEN args.padding_bottom.v
                            ELSE args.padding.v
        /\ padding.left = IF args.padding_left.some THEN args.padding_left.v ELSE args.padding.v
        /\ padding.right = IF args.padding_right.some THEN args.padding_right.v
                           ELSE args.padding.v

\* C17: a command line in the legacy form (slot filename) or (slot text literal)
\* is never rejected by the parser.
C17_LegacyReachesDispatch ==
    (entry = "main" /\ (LegacyFile(argv) \/ LegacyText(argv))) => pc # "exited"

-----------------------------------------------------------------------------
(* Font resolution.                                                         *)

\* the first step of the chain requested path -> process default -> name probing
\* -> built-in font that is available
FirstAvailable(e) ==
    IF e.path_given /\ e.path_exists /\ e.path_loads THEN "requested"
    ELSE IF e.default_found /\ e.default_loads THEN "default"
    ELSE IF e.arial # 0 THEN "name"
    ELSE "builtin"

\* C18: _get_font and _get_formatted_font always return a font handle; every load
\* tried before the one that gave the handle has failed; and no step of the chain
\* is skipped: the handle is a styled font or comes from the first step of the
\* chain that is available.
C18_FontFallbackChain ==
    pc \in {"font", "formatted_font"} =>
        /\ DOMAIN font_handle = {"source", "sized", "styled"}
        /\ tried # <<>>
        /\ tried[Len(tried)].ok
        /\ \A k \in 1..(Len(tried) - 1) : ~tried[k].ok
        /\ font_handle.styled \/ font_handle.source = FirstAvailable(env)

-----------------------------------------------------------------------------
(* The greedy rule, and plain against formatted wrapping.                   *)

\* every break of ls is forced at max_width, and a line of several words fits
ForcedBreaks(ls, max_width) ==
    /\ \A k \in 1..(Len(ls) - 1) :
          TextWidth(ls[k] \o <<" ">> \o Split(ls[k + 1])[1], PlainFont) > max_width
    /\ \A k \in 1..Len(ls) :
          Len(Split(ls[k])) >= 2 => TextWidth(Join(Split(ls[k])), PlainFont) <= max_width

\* C19: in the lines of _wrap_text and _wrap_text_for_size every break is forced:
\* a line that is not the last, joined by a space with the first word of the next
\* line, measures more than max_width; and the words appended to a line fitted.
C19_GreedyWrap ==
    /\ pc \in {"wrapped", "rewrapped", "sized", "formatted"} => ForcedBreaks(lines, MaxWidth)
    /\ pc \in {"sized", "formatted"} =>
          ForcedBreaks(size_lines, width - 2 * AUTO_SIZE_PADDING)

\* a first line of two words before a forced break, and other lines for the
\* auto-size width
C19_Witness ==
    /\ pc = "sized"
    /\ Len(lines) >= 2
    /\ Len(Split(lines[1])) = 2
    /\ size_lines # lines

\* the words of each line
PlainGroups == [k \in 1..Len(lines) |-> Split(lines[k])]

FormattedGroups ==
    [k \in 1..Len(fmt_lines) |->
        [j \in 1..Len(FormattedWords(fmt_lines[k])) |-> FormattedWords(fmt_lines[k])[j].text]]

\* C20: for a single unformatted segment holding the text, _wrap_formatted_text
\* puts the same words on the same lines, in the same order, as _wrap_text does at
\* the same max_width, a word wider than max_width included.
C20_PlainEqualsFormatted ==
    (pc = "formatted" /\ segments = <<TextSegment(text, FALSE, FALSE, FALSE)>>) =>
        FormattedGroups = PlainGroups

\* one unformatted segment wrapped into two lines, one of them a word wider
\* than max_width, the other of two words
C20_Witness ==
    /\ pc = "formatted"
    /\ segments = <<TextSegment(text, FALSE, FALSE, FALSE)>>
    /\ Len(fmt_lines) = 2
    /\ \E k \in 1..2 : FormattedWidth(fmt_lines[k]) > MaxWidth
    /\ \E k \in 1..2 : Len(FormattedWords(fmt_lines[k])) = 2
    /\ FormattedGroups = PlainGroups

-----------------------------------------------------------------------------
(* The size search ends.                                                    *)

ProbedSizes == {probed[k].size : k \in 1..Len(probed)}

\* the probe of this step is the middle of the current range, which it
\* strictly narrows
ProbeNarrows ==
    (pc = "search" /\ probes' = probes + 1) =>
        LET mid_size == probed'[Len(probed')].size
        IN  /\ min_size <= mid_size
            /\ mid_size <= max_size
            /\ MIN_AUTO_FONT_SIZE <= min_size
            /\ max_size <= MAX_AUTO_FONT_SIZE
            /\ mid_size \notin ProbedSizes
            /\ max_size' - min_size' < max_size - min_size

\* the loop is left only with a collapsed range or after the last iteration
ReturnsWhenDone ==
    (pc = "search" /\ pc' = "done") =>
        (min_size > max_size \/ probes = AutoSizeProbes)

\* C21: the size search of calculate_auto_font_size always returns; it
\* returns when the range has collapsed (min_size > max_size) or after 10
\* probes; every probed size lies in the current range inside
\* [MIN_AUTO_FONT_SIZE, MAX_AUTO_FONT_SIZE], no size is probed twice, and
\* max_size - min_size strictly decreases at every probe.
C21_SearchTerminates ==
    /\ <>(pc = "done")
    /\ [](probes <= AutoSizeProbes /\ Cardinality(ProbedSizes) = Len(probed))
    /\ [][ProbeNarrows /\ ReturnsWhenDone]_vars

\* a search that returned with a collapsed range after probes that fitted
\* and probes that did not
C21_Witness ==
    /\ pc = "done"
    /\ min_size > max_size
    /\ Len(probed) >= 7
    /\ \E k \in 1..Len(probed) : probed[k].fits
    /\ \E k \in 1..Len(probed) : ~probed[k].fits

-----------------------------------------------------------------------------
(* The stages of one render call.                                           *)

\* the place of a stage in the pipeline: parser, size search, final
\* wrapping, drawing
Rank(stage) ==
    CASE stage = "parse" -> 1 [] stage = "autosize" -> 2 [] stage = "wrap" -> 3 [] OTHER -> 4

\* C22: in one render call (create_text_image / create_with_gradient) the
\* markup is parsed first when markup is enabled, then the size search runs
\* when auto-size is requested, then the final wrapping, then the drawing;
\* the size search never runs before the parser on a markup-enabled render.
C22_PipelineOrder ==
    \A i, j \in 1..Len(events) : i < j => Rank(events[i]) < Rank(events[j])

-----------------------------------------------------------------------------
(* Where the lines of the rendered image start.                             *)

RECURSIVE SumOf(_)
SumOf(s) == IF s = <<>> THEN 0 ELSE Head(s) + SumOf(Tail(s))

\* the font of the final pass for unformatted text
RenderFont == Font(font_size, FALSE, scalable)

\* the lines of the final pass, formatted or plain
LineCount == IF kwargs.enable_html THEN Len(fmt_lines) ELSE Len(lines)

\* the measured height of each line: for a formatted line the tallest segment
LineHeights ==
    IF kwargs.enable_html
      THEN [k \in 1..Len(fmt_lines) |-> SegmentsHeight(fmt_lines[k], font_size, scalable)]
      ELSE [k \in 1..Len(lines) |-> TextHeight(lines[k], RenderFont)]

\* the measured width of each line
LineWidths ==
    IF kwargs.enable_html
      THEN [k \in 1..Len(fmt_lines) |-> SegmentsWidth(fmt_lines[k], font_size, scalable)]
      ELSE [k \in 1..Len(lines) |-> TextWidth(lines[k], RenderFont)]

StrokeActive == stroke_width > 0 /\ stroke_color # None

SpacingWithStroke == IF StrokeActive THEN LINE_SPACING + 2 * stroke_width ELSE LINE_SPACING

BlockHeight == SumOf(LineHeights) + (LineCount - 1) * SpacingWithStroke

AvailableHeight == height - padding.top - padding.bottom

\* the start of line k: the centred start of the block plus the lines above
LineStart(k) ==
    padding.top + (AvailableHeight - BlockHeight) \div 2
      + SumOf(SubSeq(LineHeights, 1, k - 1)) + (k - 1) * SpacingWithStroke

\* the draw.text calls of line k (the underline rule is a draw.line call)
TextCalls(k) == SelectSeq(drawn[k], LAMBDA op : op.fill # "underline")

\* C23: in the plain and in the formatted renderer the first line is drawn at
\* y = padding_top + (available_height - total_height) // 2 with
\* total_height = sum of line heights + (line_count - 1) * effective spacing,
\* the spacing being LINE_SPACING + 2 * stroke_width when the stroke is
\* active; each following line starts at the previous start plus that line's
\* height plus the spacing; the gaps above and below the block inside the
\* padded region differ by at most 1 pixel.
C23_VerticalPlacement ==
    pc = "image_drawn" =>
        /\ Len(drawn) = LineCount
        /\ \A k \in 1..Len(drawn) :
              \A j \in 1..Len(TextCalls(k)) : TextCalls(k)[j].y = LineStart(k)
        /\ LET above == LineStart(1) - padding.top
               below == (height - padding.bottom) - (LineStart(1) + BlockHeight)
           IN  below - above \in {0, 1}

\* formatted lines with a stroke, the gap below one pixel larger than above
C23_Witness ==
    /\ pc = "image_drawn"
    /\ kwargs.enable_html
    /\ Len(drawn) >= 2
    /\ \A k \in 1..Len(drawn) : TextCalls(k) # <<>>
    /\ StrokeActive
    /\ (AvailableHeight - BlockHeight) % 2 = 1

-----------------------------------------------------------------------------
(* Where each line starts horizontally.                                     *)

\* the start of a line of the given width under an alignment
StartFor(align, line_width) ==
    CASE align = "left"   -> padding.left
      [] align = "right"  -> width - line_width - padding.right
      [] align = "center" -> (width - line_width) \div 2

\* C24: for every line, for plain and formatted text and for solid and
\* gradient backgrounds alike, the line starts where the requested alignment
\* puts it: 'left' at padding_left, 'right' at
\* canvas_width - line_width - padding_right, 'center' at
\* (canvas_width - line_width) // 2.
C24_HorizontalPlacement ==
    (pc = "image_drawn" /\ kwargs.text_align \in {"left", "right", "center"}) =>
        \A k \in 1..Len(drawn) :
            TextCalls(k) # <<>> =>
                TextCalls(k)[1].x = StartFor(kwargs.text_align, LineWidths[k])

\* the same on a solid background only
C24_SolidPlacement ==
    (pc = "image_drawn" /\ entry = "create_text_image"
       /\ kwargs.text_align \in {"left", "right", "center"}) =>
        \A k \in 1..Len(drawn) :
            TextCalls(k) # <<>> =>
                TextCalls(k)[1].x = StartFor(kwargs.text_align, LineWidths[k])

-----------------------------------------------------------------------------
(* Formatted text under the alignment 'justify'.                            *)

\* what the formatted renderer draws for these lines under 'center'
DrawnCentered ==
    DrawFormattedText(fmt_lines, font_size, scalable, "center", stroke_width, stroke_color,
                      width, height, padding)

\* C25: when markup is enabled and the alignment is 'justify', every line
\* (first, middle and last) is drawn centred at (canvas_width - line_width) // 2
\* with no distribution of space between the words, exactly as with the
\* alignment 'center'.
C25_FormattedJustifyIsCenter ==
    (pc = "image_drawn" /\ kwargs.enable_html /\ kwargs.text_align = "justify") =>
        /\ drawn = DrawnCentered
        /\ \A k \in 1..Len(drawn) :
              TextCalls(k) # <<>> => TextCalls(k)[1].x = (width - LineWidths[k]) \div 2

\* a justified formatted render on a solid background whose first line holds
\* two words and is narrower than the padded width
C25_Witness ==
    /\ pc = "image_drawn"
    /\ kwargs.enable_html
    /\ kwargs.text_align = "justify"
    /\ entry = "create_text_image"
    /\ alignment = "justify"
    /\ Len(fmt_lines) >= 2
    /\ Len(fmt_lines[1]) >= 3
    /\ LineWidths[1] < width - padding.left - padding.right
    /\ (width - LineWidths[1]) \div 2 # padding.left

-----------------------------------------------------------------------------
(* The size chosen by the search against the final layout.                  *)

\* the size search ran and the returned size fitted when it was probed
AutoSizeFitted ==
    /\ "autosize" \in Range(events)
    /\ FitsAt(text, font_size, scalable, width, height)

\* the block of the final layout fits the padded region
FinalFits ==
    /\ BlockHeight <= AvailableHeight
    /\ \A k \in 1..LineCount :
          (IF kwargs.enable_html
             THEN Len(fmt_lines[k]) >= 3
             ELSE Len(Split(lines[k])) >= 2)
            => LineWidths[k] <= width - padding.left - padding.right

\* C28: whenever calculate_auto_font_size returns a size that fitted during
\* the search, the text laid out by the final pass at that size (wrapped at
\* width - padding_left - padding_right, with the line spacing that includes
\* the stroke) has total height <= height - padding_top - padding_bottom and
\* every multi-word line no wider than width - padding_left - padding_right,
\* for every caller-supplied padding and stroke width.
C28_AutoSizeFitsFinal ==
    (pc = "image_drawn" /\ AutoSizeFitted) => FinalFits

\* the same under the configured paddings
C28_FitsUnderConfiguredPadding ==
    (pc = "image_drawn" /\ AutoSizeFitted /\ padding = DefaultPadding) => FinalFits

-----------------------------------------------------------------------------
(* The words that go into the line breakers and the words that come out.    *)

\* the words of plain lines, read line by line
WordsOfLines(ls) == Concat([k \in 1..Len(ls) |-> Split(ls[k])])

\* the word segments of formatted lines, read line by line
WordsOfFormattedLines(fls) == Concat([k \in 1..Len(fls) |-> FormattedWords(fls[k])])

\* the words of the segments handed to the formatted breaker, each with the
\* flags of its segment
WordsOfSegments(segs) ==
    Concat([k \in 1..Len(segs) |->
              [j \in 1..Len(Split(segs[k].text)) |->
                 TextSegment(Split(segs[k].text)[j], segs[k].bold, segs[k].italic,
                             segs[k].underline)]])

\* a formatted line is word, space, word, ..., word
WordsAndSpaces(fl) ==
    \/ fl = <<TextSegment(<<>>, FALSE, FALSE, FALSE)>>
    \/ /\ Len(fl) % 2 = 1
       /\ \A j \in 1..Len(fl) : (j % 2 = 0) <=> (fl[j].text = <<" ">>)

\* C26: the words of all lines produced by _wrap_text, _wrap_text_for_size
\* and _wrap_formatted_text, read line by line, are exactly the
\* whitespace-separated words of the input in their original order, each
\* once, in formatted mode with the flags of their segment; no formatted
\* line begins or ends with a space segment.
C26_WordsPreserved ==
    /\ pc \in {"wrapped", "rewrapped", "sized", "formatted"} =>
          WordsOfLines(lines) = Split(text)
    /\ pc \in {"sized", "formatted"} => WordsOfLines(size_lines) = Split(text)
    /\ pc = "formatted" =>
          /\ WordsOfFormattedLines(fmt_lines) = WordsOfSegments(segments)
          /\ \A k \in 1..Len(fmt_lines) :
                /\ fmt_lines[k] # <<>>
                /\ fmt_lines[k][1].text # <<" ">>
                /\ fmt_lines[k][Len(fmt_lines[k])].text # <<" ">>
                /\ WordsAndSpaces(fmt_lines[k])

\* three words of two segments on two lines, one word wider than max_width
C26_Witness ==
    /\ pc = "formatted"
    /\ Len(segments) = 2
    /\ Len(WordsOfSegments(segments)) = 3
    /\ Len(fmt_lines) = 2
    /\ Len(lines) = 2
    /\ \E k \in 1..2 : TextWidth(lines[k], Font(font_size, FALSE, scalable)) > MaxWidth

-----------------------------------------------------------------------------
(* What the parser keeps of its input.                                      *)

\* the input with every recognized tag deleted
RECURSIVE DeleteTags(_, _)
DeleteTags(t, pos) ==
    LET m == NextMatch(t, pos)
    IN  IF m.found
          THEN SubSeq(t, pos + 1, m.start) \o DeleteTags(t, m.end)
          ELSE SubSeq(t, pos + 1, Len(t))

SegmentTexts == Concat([k \in 1..Len(segments) |-> segments[k].text])

\* C27: the concatenation of the texts of the segments returned by
\* parse_html_formatting equals the input with every recognized tag deleted,
\* so no returned segment text contains a recognized tag, also for inputs
\* that consist of tags only such as "<b></b>".
C27_TagsRemoved ==
    pc = "done" => SegmentTexts = DeleteTags(text, 0)

\* the same for inputs that hold some text outside the recognized tags
C27_TagsRemovedFromText ==
    (pc = "done" /\ DeleteTags(text, 0) # <<>>) => SegmentTexts = DeleteTags(text, 0)

\* C29: where a stroke colour is given and a stroke is drawn (returned
\* width > 0), the stroke is drawn in the given colour, whether the width
\* was explicit or the stroke was enabled by the auto-stroke branch.
C29_GivenStrokeColorHonored ==
    (arg_stroke_color # None /\ stroke_width > 0) => stroke_color = arg_stroke_color

\* the same for an explicit width only
C29_GivenColorWithExplicitWidth ==
    (arg_stroke_color # None /\ arg_stroke_width > 0 /\ stroke_width > 0) =>
        stroke_color = arg_stroke_color

\* the guard of the renderers, if stroke_width > 0 and stroke_color: a colour
\* tuple is true, None is not
GuardOfRenderers == stroke_width > 0 /\ stroke_color # None

\* C30: for every integer stroke_width, negative ones included, any colours
\* and either value of auto_stroke, _calculate_stroke_settings returns a
\* width >= 0, and the width is > 0 iff the returned colour is not None, so
\* the guard 'stroke_width > 0 and stroke_color' of the renderers never
\* suppresses a selected stroke.
C30_StrokeWellFormed ==
    pc = "stroked" =>
        /\ stroke_width >= 0
        /\ stroke_width > 0 <=> stroke_color # None
        /\ stroke_width > 0 => Len(stroke_color) = 3
        /\ stroke_width > 0 <=> GuardOfRenderers

\* a negative width with auto_stroke: the auto branch selects a black stroke
C30_Witness ==
    /\ pc = "stroked"
    /\ arg_stroke_width < 0
    /\ auto_stroke
    /\ stroke_width = 1
    /\ stroke_color = Black

=============================================================================
